---- MODULE Spec2Model ----
(***************************************************************************)
(* Behavioural model of two scripts of FinceptTerminal:                    *)
(*   us_treasury_fiscaldata_api.py  - the Treasury FiscalData client       *)
(*   test_universal_ckan_api.py     - the CKAN wrapper's test harness      *)
(*                                                                         *)
(* Python strings on which the code works character by character (paths,   *)
(* queries, filters, messages) are sequences of one-character strings.     *)
(* Python values that may be None are tagged records: [t |-> "none"],      *)
(* [t |-> "str", v |-> chars], [t |-> "list", v |-> seq], ...              *)
(***************************************************************************)
EXTENDS Integers, Sequences, FiniteSets, TLC

(* ------------------------------------------------------------------ *)
(* Bounds of the model                                                 *)
(* ------------------------------------------------------------------ *)
\* longest query string built freely over QueryAlphabet
MaxQueryLen == 2
\* most records a remote payload carries
MaxRecords == 2
\* the longest country list a run of the test harness is started on
MaxCountries == 2
\* the most accessor calls of one run of the harness that do not plainly succeed
MaxFaults == 1

(* ------------------------------------------------------------------ *)
(* Program constants                                                   *)
(* ------------------------------------------------------------------ *)
TIMEOUT == 30
DEFAULT_PAGE_SIZE == 100
SOURCE == "us_treasury_fiscaldata"

(* ------------------------------------------------------------------ *)
(* String literals of the source, as character sequences               *)
(* ------------------------------------------------------------------ *)
S_record_date_gte == <<"r","e","c","o","r","d","_","d","a","t","e",":","g","t","e",":">>
    \* "record_date:gte:"
S_record_date_lte == <<"r","e","c","o","r","d","_","d","a","t","e",":","l","t","e",":">>
    \* "record_date:lte:"
S_comma == <<",">>
    \* ","
S_unknown == <<"u","n","k","n","o","w","n">>
    \* "unknown"
S_v2_slash == <<"v","2","/">>
    \* "v2/"
S_fields_debt == <<"r","e","c","o","r","d","_","d","a","t","e",",","t","o","t","_","p","u","b","_","d","e","b","t","_","o","u","t","_","a","m","t">>
    \* "record_date,tot_pub_debt_out_amt"
S_sort_desc == <<"-","r","e","c","o","r","d","_","d","a","t","e">>
    \* "-record_date"
S_api_error == <<"A","P","I"," ","E","r","r","o","r",":"," ">>
    \* "API Error: "
S_http_error == <<"H","T","T","P"," ","E","r","r","o","r",":"," ">>
    \* "HTTP Error: "
S_dash == <<" ","-"," ">>
    \* " - "
S_timeout == <<"R","e","q","u","e","s","t"," ","t","i","m","e","o","u","t","."," ","A","P","I"," ","i","s"," ","t","a","k","i","n","g"," ","t","o","o"," ","l","o","n","g"," ","t","o"," ","r","e","s","p","o","n","d",".">>
    \* "Request timeout. API is taking too long to respond."
S_connection == <<"C","o","n","n","e","c","t","i","o","n"," ","e","r","r","o","r","."," ","U","n","a","b","l","e"," ","t","o"," ","c","o","n","n","e","c","t"," ","t","o"," ","A","P","I",".">>
    \* "Connection error. Unable to connect to API."
S_invalid_json == <<"I","n","v","a","l","i","d"," ","J","S","O","N"," ","r","e","s","p","o","n","s","e"," ","f","r","o","m"," ","A","P","I">>
    \* "Invalid JSON response from API"
S_unexpected == <<"U","n","e","x","p","e","c","t","e","d"," ","e","r","r","o","r",":"," ">>
    \* "Unexpected error: "
S_no_datasets == <<"N","o"," ","d","a","t","a","s","e","t","s"," ","f","o","u","n","d"," ","f","o","r"," ","c","a","t","e","g","o","r","y",":"," ">>
    \* "No datasets found for category: "
S_debt == <<"d","e","b","t">>
    \* "debt"
S_accounting == <<"a","c","c","o","u","n","t","i","n","g">>
    \* "accounting"
S_len_none == <<"o","b","j","e","c","t"," ","o","f"," ","t","y","p","e"," ","'","N","o","n","e","T","y","p","e","'"," ","h","a","s"," ","n","o"," ","l","e","n","(",")">>
    \* "object of type 'NoneType' has no len()"
S_no_get == <<"'","N","o","n","e","T","y","p","e","'"," ","o","b","j","e","c","t"," ","h","a","s"," ","n","o"," ","a","t","t","r","i","b","u","t","e"," ","'","g","e","t","'">>
    \* "'NoneType' object has no attribute 'get'"
S_not_iterable == <<"a","r","g","u","m","e","n","t"," ","o","f"," ","t","y","p","e"," ","'","N","o","n","e","T","y","p","e","'"," ","i","s"," ","n","o","t"," ","i","t","e","r","a","b","l","e">>
    \* "argument of type 'NoneType' is not iterable"
S_None == <<"N","o","n","e">>
    \* "None"
S_digits == <<"0","1","2","3","4","5","6","7","8","9">>
    \* "0123456789"
S_not_found == <<"N","o","t"," ","F","o","u","n","d">>
    \* "Not Found"
S_ep_debt == <<"v","2","/","a","c","c","o","u","n","t","i","n","g","/","o","d","/","d","e","b","t","_","t","o","_","p","e","n","n","y">>
    \* "v2/accounting/od/debt_to_penny"
S_ep_rates == <<"v","2","/","a","c","c","o","u","n","t","i","n","g","/","o","d","/","a","v","g","_","i","n","t","e","r","e","s","t","_","r","a","t","e","s">>
    \* "v2/accounting/od/avg_interest_rates"
S_ep_collections == <<"v","2","/","r","e","v","e","n","u","e","/","r","c","/","c","o","l","l","e","c","t","i","o","n","s">>
    \* "v2/revenue/rc/collections"
S_ep_interest == <<"v","2","/","d","e","b","t","/","i","e","/","i","e","_","b","p","d">>
    \* "v2/debt/ie/ie_bpd"
S_date1 == <<"2","0","2","4","-","0","1","-","0","1">>
    \* "2024-01-01"
S_date2 == <<"2","0","2","4","-","0","6","-","0","1">>
    \* "2024-06-01"
S_debt_penny == <<"d","e","b","t"," ","p","e","n","n","y">>
    \* "debt penny"
S_DEBT == <<"D","E","B","T">>
    \* "DEBT"
S_nonexistent == <<"n","o","n","e","x","i","s","t","e","n","t","_","c","a","t","e","g","o","r","y">>
    \* "nonexistent_category"
S_rate_limit == <<"r","a","t","e"," ","l","i","m","i","t"," ","e","x","c","e","e","d","e","d">>
    \* "rate limit exceeded"

(* ------------------------------------------------------------------ *)
(* Python string operations                                            *)
(* ------------------------------------------------------------------ *)
UpperChars == <<"A","B","C","D","E","F","G","H","I","J","K","L","M",
                "N","O","P","Q","R","S","T","U","V","W","X","Y","Z">>
LowerChars == <<"a","b","c","d","e","f","g","h","i","j","k","l","m",
                "n","o","p","q","r","s","t","u","v","w","x","y","z">>

IsUpper(c) == \E i \in 1..Len(UpperChars) : UpperChars[i] = c
IsLower(c) == \E i \in 1..Len(LowerChars) : LowerChars[i] = c

\* str.lower() on one character
LowerChar(c) ==
    IF IsUpper(c)
    THEN LowerChars[CHOOSE i \in 1..Len(UpperChars) : UpperChars[i] = c]
    ELSE c

\* str.upper() on one character
UpperChar(c) ==
    IF IsLower(c)
    THEN UpperChars[CHOOSE i \in 1..Len(LowerChars) : LowerChars[i] = c]
    ELSE c

\* s.lower()
StrLower(s) == [i \in 1..Len(s) |-> LowerChar(s[i])]

\* needle in hay  (substring test; the empty string is in every string)
IsSubstr(needle, hay) ==
    \E i \in 0..(Len(hay) - Len(needle)) :
        SubSeq(hay, i + 1, i + Len(needle)) = needle

\* the characters str.split() with no argument splits on
IsSpace(c) == c \in {" ", "\t", "\n", "\r"}

RECURSIVE SplitWs(_, _, _)
SplitWs(s, cur, acc) ==
    IF s = <<>>
    THEN IF cur = <<>> THEN acc ELSE Append(acc, cur)
    ELSE IF IsSpace(Head(s))
         THEN SplitWs(Tail(s), <<>>, IF cur = <<>> THEN acc ELSE Append(acc, cur))
         ELSE SplitWs(Tail(s), Append(cur, Head(s)), acc)

\* s.split(): runs of whitespace separate, no empty tokens
StrSplit(s) == SplitWs(s, <<>>, <<>>)

RECURSIVE SplitSep(_, _, _, _)
SplitSep(s, sep, cur, acc) ==
    IF s = <<>>
    THEN Append(acc, cur)
    ELSE IF Head(s) = sep
         THEN SplitSep(Tail(s), sep, <<>>, Append(acc, cur))
         ELSE SplitSep(Tail(s), sep, Append(cur, Head(s)), acc)

\* s.split(sep) for a one-character separator: empty pieces are kept
StrSplitOn(s, sep) == SplitSep(s, sep, <<>>, <<>>)

RECURSIVE StrReplace(_, _, _)
\* s.replace(old, new), old non-empty: leftmost non-overlapping occurrences
StrReplace(s, old, new) ==
    IF Len(s) < Len(old) \/ old = <<>>
    THEN s
    ELSE IF SubSeq(s, 1, Len(old)) = old
         THEN new \o StrReplace(SubSeq(s, Len(old) + 1, Len(s)), old, new)
         ELSE <<Head(s)>> \o StrReplace(Tail(s), old, new)

RECURSIVE TitleFrom(_, _)
TitleFrom(s, prevCased) ==
    IF s = <<>>
    THEN <<>>
    ELSE LET c == Head(s)
             cased == IsUpper(c) \/ IsLower(c)
         IN  <<IF ~cased THEN c
               ELSE IF prevCased THEN LowerChar(c) ELSE UpperChar(c)>>
             \o TitleFrom(Tail(s), cased)

\* s.title()
StrTitle(s) == TitleFrom(s, FALSE)

RECURSIVE IntToStr(_)
\* str(n) for n >= 0
IntToStr(n) ==
    IF n < 10
    THEN <<S_digits[n + 1]>>
    ELSE IntToStr(n \div 10) \o <<S_digits[(n % 10) + 1]>>

(* ------------------------------------------------------------------ *)
(* Python values                                                       *)
(* ------------------------------------------------------------------ *)
PyNone == [t |-> "none"]
PyStr(s) == [t |-> "str", v |-> s]
PyList(s) == [t |-> "list", v |-> s]
PyDict(d) == [t |-> "dict", v |-> d]

IsNone(x) == x.t = "none"

\* bool(x)
Truthy(x) ==
    CASE x.t = "none" -> FALSE
      [] x.t = "str"  -> Len(x.v) > 0
      [] x.t = "list" -> Len(x.v) > 0
      [] x.t = "dict" -> DOMAIN x.v # {}
      [] x.t = "bool" -> x.v
      [] OTHER -> TRUE

\* str(x) as an f-string renders it
PyToStr(x) ==
    CASE x.t = "none" -> S_None
      [] x.t = "str"  -> x.v
      [] OTHER -> <<"?">>

EmptyDict == <<>>

\* d[k] = v
DictSet(d, k, v) == (k :> v) @@ d

\* d.get(k, default)
DictGet(d, k, default) == IF k \in DOMAIN d THEN d[k] ELSE default

(* ------------------------------------------------------------------ *)
(* The static registry                                                 *)
(* ------------------------------------------------------------------ *)
AvailableDatasets ==
    << <<"v","2","/","a","c","c","o","u","n","t","i","n","g","/","o","d","/","d","e","b","t","_","t","o","_","p","e","n","n","y">>,
       <<"v","2","/","a","c","c","o","u","n","t","i","n","g","/","o","d","/","a","v","g","_","i","n","t","e","r","e","s","t","_","r","a","t","e","s">>,
       <<"v","2","/","a","c","c","o","u","n","t","i","n","g","/","o","d","/","s","c","h","e","d","u","l","e","s","_","f","e","d","_","d","e","b","t">>,
       <<"v","2","/","a","c","c","o","u","n","t","i","n","g","/","o","d","/","s","t","m","t","_","d","e","b","t">>,
       <<"v","2","/","a","c","c","o","u","n","t","i","n","g","/","o","d","/","s","t","m","t","_","t","s","y","_","g","o","v","_","s","e","c","_","h","l","d","g","s">>,
       <<"v","2","/","a","c","c","o","u","n","t","i","n","g","/","o","d","/","m","t","s">>,
       <<"v","2","/","a","c","c","o","u","n","t","i","n","g","/","o","d","/","r","e","c","e","i","p","t","s">>,
       <<"v","2","/","a","c","c","o","u","n","t","i","n","g","/","o","d","/","o","u","t","l","a","y","s">>,
       <<"v","2","/","a","c","c","o","u","n","t","i","n","g","/","o","d","/","d","e","f","i","c","i","t">>,
       <<"v","2","/","a","c","c","o","u","n","t","i","n","g","/","o","d","/","s","u","p","p","l","e","m","e","n","t","a","l","_","m","o","n","t","h","l","y","_","s","t","a","t","e","m","e","n","t">>,
       <<"v","2","/","a","c","c","o","u","n","t","i","n","g","/","d","t","s","/","g","s","_","c","f","s">>,
       <<"v","2","/","a","c","c","o","u","n","t","i","n","g","/","d","t","s","/","d","s","_","g","f">>,
       <<"v","2","/","a","c","c","o","u","n","t","i","n","g","/","d","t","s","/","d","e","b","t","_","t","o","_","t","h","e","_","p","e","n","n","y">>,
       <<"v","2","/","a","c","c","o","u","n","t","i","n","g","/","o","d","/","a","v","g","_","m","a","t","u","r","i","t","y","_","s","e","c","s">>,
       <<"v","2","/","a","c","c","o","u","n","t","i","n","g","/","o","d","/","s","e","c","u","r","i","t","i","e","s">>,
       <<"v","2","/","d","e","b","t","/","m","s","d","/","m","s","d","_","s","u","m","m","a","r","y">>,
       <<"v","2","/","d","e","b","t","/","m","s","d","/","m","s","d","_","d","e","t","a","i","l">>,
       <<"v","2","/","d","e","b","t","/","i","e","/","i","e","_","b","p","d">>,
       <<"v","2","/","r","e","v","e","n","u","e","/","r","c","/","c","o","l","l","e","c","t","i","o","n","s">>,
       <<"v","2","/","r","e","v","e","n","u","e","/","r","c","/","q","u","a","r","t","e","r","l","y","_","c","o","l","l","e","c","t","i","o","n","s">>,
       <<"v","2","/","r","e","v","e","n","u","e","/","r","c","/","a","n","n","u","a","l","_","c","o","l","l","e","c","t","i","o","n","s">>,
       <<"v","2","/","r","e","v","e","n","u","e","/","r","c","/","r","e","c","e","i","p","t","s">>,
       <<"v","2","/","r","e","v","e","n","u","e","/","r","c","/","e","x","p","e","n","d","i","t","u","r","e","s">>,
       <<"v","2","/","e","x","p","e","n","d","i","t","u","r","e","s","/","b","u","d","g","e","t","/","b","u","d","g","e","t","_","f","u","n","c","t","i","o","n">>,
       <<"v","2","/","e","x","p","e","n","d","i","t","u","r","e","s","/","b","u","d","g","e","t","/","b","u","d","g","e","t","_","s","u","b","f","u","n","c","t","i","o","n">>,
       <<"v","2","/","e","x","p","e","n","d","i","t","u","r","e","s","/","b","u","d","g","e","t","/","b","u","d","g","e","t","_","a","c","c","o","u","n","t">>,
       <<"v","2","/","e","x","p","e","n","d","i","t","u","r","e","s","/","b","u","d","g","e","t","/","b","u","d","g","e","t","_","o","b","j","e","c","t","_","c","l","a","s","s">>,
       <<"v","2","/","e","x","p","e","n","d","i","t","u","r","e","s","/","a","g","e","n","c","y","/","a","g","e","n","c","y">> >>

(* ------------------------------------------------------------------ *)
(* The remote FiscalData service, as requests.get sees it              *)
(* ------------------------------------------------------------------ *)
\* an exception: the classes it is an instance of, str(e), e.response
Exc(classes, msg, response) ==
    [classes |-> classes, msg |-> msg, response |-> response]

\* opaque records of a remote data array
Records == {"r1", "r2"}

RECURSIVE SeqsUpTo(_, _)
\* all sequences over S of length at most n
SeqsUpTo(S, n) ==
    IF n = 0
    THEN {<<>>}
    ELSE LET shorter == SeqsUpTo(S, n - 1)
         IN  shorter \cup {Append(s, x) : s \in shorter, x \in S}

\* the remote payload's pagination block, when the service sends all of it
FullMeta ==
    ("total-count" :> 7) @@ ("page-number" :> 2) @@
    ("page-size" :> 50) @@ ("total-pages" :> 4)

\* optional members of a JSON object payload: a set of (key :> value) or <<>>
ErrorMembers == {EmptyDict, "error" :> PyStr(S_rate_limit), "error" :> PyNone}
DataMembers ==
    {EmptyDict, "data" :> PyNone}
        \cup {"data" :> PyList(s) : s \in SeqsUpTo(Records, MaxRecords)}
MetaMembers ==
    {EmptyDict, "meta" :> PyNone, "meta" :> PyDict(EmptyDict), "meta" :> PyDict(FullMeta)}

\* JSON bodies: an object with any of error/data/meta, or a JSON value that is no object
Payloads ==
    {[t |-> "other"]}
        \cup {PyDict(e @@ d @@ m) : e \in ErrorMembers, d \in DataMembers, m \in MetaMembers}

\* response bodies: parseable JSON, or not (response.json() raises)
Bodies ==
    {[json |-> TRUE, value |-> p] : p \in Payloads}
        \cup {[json |-> FALSE, value |-> PyNone]}

\* the bodies tried with a status other than 200: not JSON, or a JSON object
\* with an empty 'data'
OtherBodies ==
    { [json |-> FALSE, value |-> PyNone],
      [json |-> TRUE, value |-> PyDict("data" :> PyList(<<>>))] }

\* exceptions requests.get raises itself
TransportExceptions ==
    { Exc({"ConnectionError", "RequestException", "Exception"}, <<>>, PyNone),
      Exc({"Timeout", "RequestException", "Exception"}, <<>>, PyNone),
      \* ConnectTimeout derives from both ConnectionError and Timeout
      Exc({"ConnectionError", "Timeout", "RequestException", "Exception"}, <<>>, PyNone),
      \* any other failure, e.g. TooManyRedirects
      Exc({"RequestException", "Exception"}, <<>>, PyNone),
      Exc({"RequestException", "Exception"}, S_rate_limit, PyNone) }

\* 300 stands for the statuses that are neither 2xx nor an error status
Statuses == {200, 300, 404, 503}
Reasons == {S_not_found, <<>>}

\* everything one requests.get call can come back with
RemoteOutcomes ==
    {[kind |-> "raise", exc |-> e] : e \in TransportExceptions}
        \cup {[kind |-> "response", status |-> 200, reason |-> <<>>, body |-> b] :
                b \in Bodies}
        \cup {[kind |-> "response", status |-> s, reason |-> r, body |-> b] :
                s \in Statuses \ {200}, r \in Reasons, b \in OtherBodies}

(* ------------------------------------------------------------------ *)
(* _make_request                                                       *)
(* ------------------------------------------------------------------ *)
Raised(e) == [raised |-> TRUE, exc |-> e]
Returned(v) == [raised |-> FALSE, value |-> v]

\* datetime.now().isoformat(): the time of the call
Now == "now"

\* mutant: the format is only defaulted, as the page size is
RequestParamsFormatDefaulted(params) ==
    LET p1 == IF IsNone(params) THEN EmptyDict ELSE params.v
        p2 == IF "page[size]" \in DOMAIN p1
              THEN p1
              ELSE DictSet(p1, "page[size]", DEFAULT_PAGE_SIZE)
    IN  IF "format" \in DOMAIN p2 THEN p2 ELSE DictSet(p2, "format", "json")
\* lines 40-48: the parameters as sent
RequestParams(params) ==
    LET p1 == IF IsNone(params) THEN EmptyDict ELSE params.v
        p2 == IF "page[size]" \in DOMAIN p1
              THEN p1
              ELSE DictSet(p1, "page[size]", DEFAULT_PAGE_SIZE)
    IN  DictSet(p2, "format", "json")

\* mutant: the error metadata without the operation's identifier
RequestErrorMetadataAnonymous(endpoint, p) ==
    [source |-> SOURCE, last_updated |-> Now, params |-> p]

\* the metadata every error envelope of _make_request carries
RequestErrorMetadata(endpoint, p) ==
    [source |-> SOURCE, last_updated |-> Now, action |-> endpoint,
     endpoint |-> endpoint, params |-> p]

\* mutant: an error envelope whose data is None
ErrorEnvelopeNullData(metadata, message) ==
    [data |-> PyNone, metadata |-> metadata, error |-> PyStr(message)]

ErrorEnvelope(metadata, message) ==
    [data |-> PyList(<<>>), metadata |-> metadata, error |-> PyStr(message)]

\* lines 69-89: the envelope of a payload without 'error'
SuccessEnvelope(endpoint, p, d, m) ==
    [data |-> d,
     metadata |->
        [source |-> SOURCE, last_updated |-> Now, action |-> endpoint,
         endpoint |-> endpoint, params |-> p,
         count |-> Len(d.v),
         total_count |-> DictGet(m.v, "total-count", 0),
         page_info |->
            [page_number |-> DictGet(m.v, "page-number", 1),
             page_size |-> DictGet(m.v, "page-size", DEFAULT_PAGE_SIZE),
             total_pages |-> DictGet(m.v, "total-pages", 1)]],
     error |-> PyNone]

\* response.raise_for_status(): 4xx and 5xx raise HTTPError
RaisesForStatus(status) == status >= 400 /\ status < 600

\* lines 50-89: the body of the try block
RequestTry(endpoint, p, remote) ==
    IF remote.kind = "raise"
    THEN Raised(remote.exc)
    ELSE IF RaisesForStatus(remote.status)
    THEN Raised(Exc({"HTTPError", "RequestException", "Exception"}, <<>>,
                    [status_code |-> remote.status, reason |-> remote.reason]))
    ELSE IF ~remote.body.json
    THEN Raised(Exc({"JSONDecodeError", "ValueError", "Exception"}, <<>>, PyNone))
    ELSE LET data == remote.body.value
         IN  IF data.t # "dict"
             THEN Raised(Exc({"TypeError", "Exception"}, S_not_iterable, PyNone))
             ELSE IF "error" \in DOMAIN data.v
             THEN Returned(ErrorEnvelope(RequestErrorMetadata(endpoint, p),
                                         S_api_error \o PyToStr(data.v["error"])))
             ELSE LET d == DictGet(data.v, "data", PyList(<<>>))
                      m == DictGet(data.v, "meta", PyDict(EmptyDict))
                  IN  IF d.t # "list"
                      THEN Raised(Exc({"TypeError", "Exception"}, S_len_none, PyNone))
                      ELSE IF m.t # "dict"
                      THEN Raised(Exc({"AttributeError", "Exception"}, S_no_get, PyNone))
                      ELSE Returned(SuccessEnvelope(endpoint, p, d, m))

\* lines 91-150: the except clauses, in their order
RequestExcept(endpoint, p, e) ==
    LET meta == RequestErrorMetadata(endpoint, p)
    IN  IF "HTTPError" \in e.classes
        THEN ErrorEnvelope(meta, S_http_error \o IntToStr(e.response.status_code)
                                    \o S_dash \o e.response.reason)
        ELSE IF "Timeout" \in e.classes
        THEN ErrorEnvelope(meta, S_timeout)
        ELSE IF "ConnectionError" \in e.classes
        THEN ErrorEnvelope(meta, S_connection)
        ELSE IF "JSONDecodeError" \in e.classes
        THEN ErrorEnvelope(meta, S_invalid_json)
        ELSE ErrorEnvelope(meta, S_unexpected \o e.msg)

\* mutant: a request that raised is sent once more
MakeRequestRetrying(endpoint, params, remote) ==
    LET p == RequestParams(params)
        t == RequestTry(endpoint, p, remote)
        sent == [endpoint |-> endpoint, params |-> p, timeout |-> TIMEOUT]
    IN  [result |-> IF t.raised THEN RequestExcept(endpoint, p, t.exc) ELSE t.value,
         net |-> IF t.raised THEN <<sent, sent>> ELSE <<sent>>]
\* _make_request(endpoint, params) against one remote outcome: the envelope
\* returned and the network requests issued
MakeRequest(endpoint, params, remote) ==
    LET p == RequestParams(params)
        t == RequestTry(endpoint, p, remote)
    IN  [result |-> IF t.raised THEN RequestExcept(endpoint, p, t.exc) ELSE t.value,
         net |-> <<[endpoint |-> endpoint, params |-> p, timeout |-> TIMEOUT]>>]

(* ------------------------------------------------------------------ *)
(* Level 1: catalogue functions                                        *)
(* ------------------------------------------------------------------ *)
\* dataset.split('/')[1] if len(dataset.split('/')) > 2 else "unknown"
CategoryOf(dataset) ==
    LET parts == StrSplitOn(dataset, "/")
    IN  IF Len(parts) > 2 THEN parts[2] ELSE S_unknown

\* dataset.replace(prefix, '').replace('_', ' ').title()
NameOf(dataset, prefix) ==
    StrTitle(StrReplace(StrReplace(dataset, prefix, <<>>), <<"_">>, <<" ">>))

\* one record of get_catalogue
CatalogueInfo(dataset) ==
    [endpoint |-> dataset, category |-> CategoryOf(dataset),
     name |-> NameOf(dataset, S_v2_slash), path |-> dataset]

\* get_catalogue()
GetCatalogue ==
    LET dataset_info ==
            [i \in 1..Len(AvailableDatasets) |-> CatalogueInfo(AvailableDatasets[i])]
    IN  [data |-> PyList(dataset_info),
         metadata |->
            [source |-> SOURCE, last_updated |-> Now, action |-> "get_catalogue",
             count |-> Len(dataset_info),
             description |-> "Available U.S. Treasury FiscalData datasets"],
         error |-> PyNone]

\* mutant: the category matched against the start of the path after "v2/"
FilterByCategoryAsPrefix(category) ==
    SelectSeq(AvailableDatasets,
              LAMBDA d : SubSeq(d, 4, 3 + Len(category)) = category)
\* [d for d in all_datasets if category in d]
FilterByCategory(category) ==
    SelectSeq(AvailableDatasets, LAMBDA d : IsSubstr(category, d))

\* one record of get_datasets_by_category
CategoryInfo(dataset, category) ==
    [endpoint |-> dataset, category |-> category,
     name |-> NameOf(dataset, S_v2_slash \o category \o <<"/">>), path |-> dataset]

\* get_datasets_by_category(category)
GetDatasetsByCategory(category) ==
    LET filtered_datasets == FilterByCategory(category)
        dataset_info ==
            [i \in 1..Len(filtered_datasets) |-> CategoryInfo(filtered_datasets[i], category)]
    IN  IF filtered_datasets = <<>>
        THEN ErrorEnvelope([source |-> SOURCE, last_updated |-> Now,
                            action |-> "get_datasets_by_category",
                            category |-> category],
                           S_no_datasets \o category)
        ELSE [data |-> PyList(dataset_info),
              metadata |->
                 [source |-> SOURCE, last_updated |-> Now,
                  action |-> "get_datasets_by_category",
                  category |-> category, count |-> Len(dataset_info)],
              error |-> PyNone]

(* ------------------------------------------------------------------ *)
(* Level 2: dataset functions                                          *)
(* ------------------------------------------------------------------ *)
\* mutant: the sort order is not passed on
DatasetParamsUnsorted(fields, filter, sort, page_size, page_number) ==
    LET p0 == ("page[size]" :> page_size) @@ ("page[number]" :> page_number)
        p1 == IF Truthy(fields) THEN DictSet(p0, "fields", fields.v) ELSE p0
    IN  IF Truthy(filter) THEN DictSet(p1, "filter", filter.v) ELSE p1
\* lines 320-330: the parameters get_dataset_data hands to _make_request
DatasetParams(fields, filter, sort, page_size, page_number) ==
    LET p0 == ("page[size]" :> page_size) @@ ("page[number]" :> page_number)
        p1 == IF Truthy(fields) THEN DictSet(p0, "fields", fields.v) ELSE p0
        p2 == IF Truthy(filter) THEN DictSet(p1, "filter", filter.v) ELSE p1
    IN  IF Truthy(sort) THEN DictSet(p2, "sort", sort.v) ELSE p2

\* get_dataset_data(endpoint, fields, filter, sort, page_size, page_number)
GetDatasetData(endpoint, fields, filter, sort, page_size, page_number, remote) ==
    MakeRequest(endpoint,
                PyDict(DatasetParams(fields, filter, sort, page_size, page_number)),
                remote)

\* get_dataset_summary(endpoint)
GetDatasetSummary(endpoint, remote) ==
    GetDatasetData(endpoint, PyNone, PyNone, PyNone, 5, 1, remote)

(* ------------------------------------------------------------------ *)
(* Level 3: the derived series accessors                               *)
(* ------------------------------------------------------------------ *)
\* mutant: the one-sided tests come first, so the two-sided one is never reached
FilterExprStartFirst(start_date, end_date) ==
    IF Truthy(start_date)
    THEN S_record_date_gte \o start_date.v
    ELSE IF Truthy(end_date)
    THEN S_record_date_lte \o end_date.v
    ELSE <<>>

\* lines 386-392 (and the same lines of the three other accessors)
FilterExpr(start_date, end_date) ==
    IF Truthy(start_date) /\ Truthy(end_date)
    THEN S_record_date_gte \o start_date.v \o S_comma
            \o S_record_date_lte \o end_date.v
    ELSE IF Truthy(start_date)
    THEN S_record_date_gte \o start_date.v
    ELSE IF Truthy(end_date)
    THEN S_record_date_lte \o end_date.v
    ELSE <<>>

SERIES_PAGE_SIZE == 500

\* get_debt_to_penny(start_date, end_date)
GetDebtToPenny(start_date, end_date, remote) ==
    GetDatasetData(S_ep_debt, PyStr(S_fields_debt),
                   PyStr(FilterExpr(start_date, end_date)),
                   PyStr(S_sort_desc), SERIES_PAGE_SIZE, 1, remote)

\* get_treasury_yield_rates(start_date, end_date)
GetTreasuryYieldRates(start_date, end_date, remote) ==
    GetDatasetData(S_ep_rates, PyNone,
                   PyStr(FilterExpr(start_date, end_date)),
                   PyStr(S_sort_desc), SERIES_PAGE_SIZE, 1, remote)

\* get_monthly_treasury_statement(start_date, end_date)
GetMonthlyTreasuryStatement(start_date, end_date, remote) ==
    GetDatasetData(S_ep_collections, PyNone,
                   PyStr(FilterExpr(start_date, end_date)),
                   PyStr(S_sort_desc), SERIES_PAGE_SIZE, 1, remote)

\* get_interest_expense(start_date, end_date)
GetInterestExpense(start_date, end_date, remote) ==
    GetDatasetData(S_ep_interest, PyNone,
                   PyStr(FilterExpr(start_date, end_date)),
                   PyStr(S_sort_desc), SERIES_PAGE_SIZE, 1, remote)

(* ------------------------------------------------------------------ *)
(* Utility functions: search_datasets, test_endpoints                  *)
(* ------------------------------------------------------------------ *)
\* mutant: the operands of 'in' swapped
MatchScoreSwapped(query_lower, dataset) ==
    LET words == StrSplit(query_lower)
    IN  Cardinality({i \in 1..Len(words) : IsSubstr(StrLower(dataset), words[i])})

\* sum(1 for word in query_lower.split() if word in dataset.lower())
MatchScore(query_lower, dataset) ==
    LET words == StrSplit(query_lower)
    IN  Cardinality({i \in 1..Len(words) : IsSubstr(words[i], StrLower(dataset))})

\* one record of search_datasets
SearchInfo(dataset, query_lower) ==
    [endpoint |-> dataset, category |-> CategoryOf(dataset),
     name |-> NameOf(dataset, S_v2_slash), path |-> dataset,
     match_score |-> MatchScore(query_lower, dataset)]

\* lines 547-557: the registry entries the query selects, in registry order
MatchingDatasets(query) ==
    LET query_lower == StrLower(query)
        hits == SelectSeq(AvailableDatasets,
                          LAMBDA d : IsSubstr(query_lower, StrLower(d)))
    IN  [i \in 1..Len(hits) |-> SearchInfo(hits[i], query_lower)]

RECURSIVE InsertByScore(_, _)
\* mutant: x goes in front of the records of its own score (an unstable sort)
InsertByScoreBeforeTies(sorted, x) ==
    IF sorted = <<>>
    THEN <<x>>
    ELSE IF Head(sorted).match_score > x.match_score
         THEN <<Head(sorted)>> \o InsertByScore(Tail(sorted), x)
         ELSE <<x>> \o sorted

\* x goes behind every record whose score is at least its own
InsertByScore(sorted, x) ==
    IF sorted = <<>>
    THEN <<x>>
    ELSE IF Head(sorted).match_score >= x.match_score
         THEN <<Head(sorted)>> \o InsertByScore(Tail(sorted), x)
         ELSE <<x>> \o sorted

RECURSIVE SortFrom(_, _)
SortFrom(rest, sorted) ==
    IF rest = <<>>
    THEN sorted
    ELSE SortFrom(Tail(rest), InsertByScore(sorted, Head(rest)))

\* list.sort(key=lambda x: x['match_score'], reverse=True): a stable sort
SortByScoreDesc(records) == SortFrom(records, <<>>)

\* search_datasets(query)
SearchDatasets(query) ==
    LET matching_datasets == SortByScoreDesc(MatchingDatasets(query))
    IN  [data |-> PyList(matching_datasets),
         metadata |->
            [source |-> SOURCE, last_updated |-> Now, action |-> "search_datasets",
             query |-> query, count |-> Len(matching_datasets)],
         error |-> PyNone]

\* one entry of test_endpoints' test_results
TestResult(name, result) ==
    [endpoint |-> name,
     status |-> IF IsNone(result.error) THEN "success" ELSE "error",
     error |-> result.error,
     data_count |-> Len(result.data.v)]

\* f"{(success_count/total_count)*100:.1f}%"
FormatRate(success_count, total_count) ==
    LET tenths == (success_count * 1000 + (total_count \div 2)) \div total_count
    IN  IntToStr(tenths \div 10) \o <<".">> \o IntToStr(tenths % 10) \o <<"%">>

\* lines 643-660: the envelope test_endpoints builds from its five results
TestEndpointsEnvelope(test_results) ==
    LET success_count ==
            Cardinality({i \in 1..Len(test_results) : test_results[i].status = "success"})
        total_count == Len(test_results)
    IN  [data |-> PyList(test_results),
         metadata |->
            [source |-> SOURCE, last_updated |-> Now, action |-> "test_endpoints",
             total_tests |-> total_count,
             successful_tests |-> success_count,
             failed_tests |-> total_count - success_count,
             success_rate |-> FormatRate(success_count, total_count)],
         error |-> PyNone]

(* ------------------------------------------------------------------ *)
(* The CKAN wrapper as the test harness sees it                        *)
(* ------------------------------------------------------------------ *)
\* the metadata a well-formed CKAN envelope carries
CkanMetadata ==
    PyDict([source |-> "ckan", country |-> "xx", last_updated |-> Now, count |-> 1])
CkanMetadataNoCountry ==
    PyDict([source |-> "ckan", last_updated |-> Now, count |-> 1])

CkanEnvelope(data, metadata, error) ==
    PyDict([data |-> data, metadata |-> metadata, error |-> error])

\* one element of a list an accessor returns: an organization, dataset,
\* resource or country
CkanItem ==
    PyDict([name |-> PyStr(<<"n">>), id |-> PyStr(<<"i">>), code |-> PyStr(<<"c">>)])
CkanBareItem == PyDict(EmptyDict)

\* the dictionary a details accessor returns
CkanDetails ==
    PyDict([title |-> PyStr(<<"t">>), name |-> PyStr(<<"n">>),
            organization |-> PyDict([name |-> PyStr(<<"o">>)])])
CkanDetailsNoTitle ==
    PyDict([name |-> PyStr(<<"n">>), organization |-> PyDict([name |-> PyStr(<<"o">>)])])
CkanDetailsOrgNull ==
    PyDict([title |-> PyStr(<<"t">>), name |-> PyStr(<<"n">>), organization |-> PyNone])
CkanDetailsNoOrg ==
    PyDict([title |-> PyStr(<<"t">>), name |-> PyStr(<<"n">>)])

S_boom == <<"b","o","o","m">>

\* the plain success of an accessor that returns a list, and of one that
\* returns a dictionary
OkList == Returned(CkanEnvelope(PyList(<<CkanItem>>), CkanMetadata, PyNone))
OkDetails == Returned(CkanEnvelope(CkanDetails, CkanMetadata, PyNone))

\* what any accessor call may do besides
CommonFailures ==
    { Raised(Exc({"Exception"}, S_boom, PyNone)),
      \* a value that is no mapping
      Returned(PyNone),
      \* a mapping without the 'error' field
      Returned(PyDict([data |-> PyList(<<>>), metadata |-> CkanMetadata])),
      \* an error envelope
      Returned(CkanEnvelope(PyList(<<>>), CkanMetadata, PyStr(S_boom))),
      \* a success envelope whose metadata lacks 'country'
      Returned(CkanEnvelope(PyList(<<CkanItem>>), CkanMetadataNoCountry, PyNone)) }

\* every outcome of a call of an accessor that returns a list
ListOutcomes ==
    {OkList} \cup CommonFailures \cup
    { Returned(CkanEnvelope(PyList(<<>>), CkanMetadata, PyNone)),
      Returned(CkanEnvelope(PyList(<<CkanBareItem>>), CkanMetadata, PyNone)),
      \* an error that is the empty string: not None, yet falsy
      Returned(CkanEnvelope(PyList(<<CkanItem>>), CkanMetadata, PyStr(<<>>))) }

\* every outcome of a call of an accessor that returns a dictionary
DetailsOutcomes ==
    {OkDetails} \cup CommonFailures \cup
    { Returned(CkanEnvelope(CkanDetailsNoTitle, CkanMetadata, PyNone)),
      Returned(CkanEnvelope(CkanDetailsOrgNull, CkanMetadata, PyNone)),
      Returned(CkanEnvelope(CkanDetailsNoOrg, CkanMetadata, PyNone)) }

(* ------------------------------------------------------------------ *)
(* test_universal_ckan_api.py: the pieces of the harness               *)
(* ------------------------------------------------------------------ *)
ALL_COUNTRIES == <<"us", "uk", "au", "it", "br", "lv", "si", "uy">>
FAST_COUNTRIES == <<"us", "uk", "au">>
WORKFLOW_COUNTRY == "us"

\* v[k] does not raise: v is a mapping that has k
CanSub(v, k) == v.t = "dict" /\ k \in DOMAIN v.v

required_metadata == <<"source", "country", "last_updated", "count">>

\* mutant: only an error of None passes
TestFunctionErrorNone(r) ==
    IF r.raised
    THEN FALSE
    ELSE LET result == r.value
         IN  IF result.t # "dict"
             THEN FALSE
             ELSE IF ~({"error", "data", "metadata"} \subseteq DOMAIN result.v)
             THEN FALSE
             ELSE IF result.v.error # PyNone
             THEN FALSE
             ELSE LET metadata == result.v.metadata
                  IN  IF metadata.t # "dict"
                      THEN FALSE
                      ELSE \A i \in 1..Len(required_metadata) :
                               required_metadata[i] \in DOMAIN metadata.v
\* test_function(name, f, *args), r being what the call of f did
TestFunction(r) ==
    \* line 122: an exception of f, or of the checks themselves, gives False
    IF r.raised
    THEN FALSE
    ELSE LET result == r.value
         IN  IF result.t # "dict"
             THEN FALSE
             ELSE IF ~({"error", "data", "metadata"} \subseteq DOMAIN result.v)
             THEN FALSE
             ELSE IF Truthy(result.v.error)
             THEN FALSE
             ELSE LET metadata == result.v.metadata
                  IN  \* no dict: "in" or metadata.get raises, line 122 catches
                      IF metadata.t # "dict"
                      THEN FALSE
                      ELSE \A i \in 1..Len(required_metadata) :
                               required_metadata[i] \in DOMAIN metadata.v

\* x = r['data'][0][key] under "if not r['error'] and r['data']", r being
\* what the lookup call did: "raise" when anything in it raises, "skip" when
\* the condition is false, otherwise the value
FirstField(r, key) ==
    IF r.raised
    THEN [st |-> "raise"]
    ELSE LET v == r.value
         IN  IF ~CanSub(v, "error")
             THEN [st |-> "raise"]
             ELSE IF Truthy(v.v.error)
             THEN [st |-> "skip"]
             ELSE IF ~CanSub(v, "data")
             THEN [st |-> "raise"]
             ELSE IF ~Truthy(v.v.data)
             THEN [st |-> "skip"]
             ELSE IF v.v.data.t # "list"
             THEN [st |-> "raise"]
             ELSE IF ~CanSub(v.v.data.v[1], key)
             THEN [st |-> "raise"]
             ELSE [st |-> "value", v |-> v.v.data.v[1].v[key]]

AccessorCall(group, fn, country) == [group |-> group, fn |-> fn, country |-> country]

\* test_supported_countries(): r1 answers the call inside test_function,
\* r2 the second call made when the first passed
SupportedCountries(r1, r2) ==
    LET success == TestFunction(r1)
        c1 == <<AccessorCall("supported", "get_supported_countries", "-")>>
    IN  IF ~success
        THEN [raised |-> FALSE, ok |-> FALSE, calls |-> c1]
        ELSE [raised |->
                 \/ r2.raised
                 \/ ~CanSub(r2.value, "data")
                 \/ r2.value.v.data.t \notin {"list", "dict"}
                 \/ /\ r2.value.v.data.t = "list"
                    /\ \E i \in 1..Len(r2.value.v.data.v) :
                           \/ ~CanSub(r2.value.v.data.v[i], "code")
                           \/ ~CanSub(r2.value.v.data.v[i], "name")
                 \/ /\ r2.value.v.data.t = "dict"
                    /\ DOMAIN r2.value.v.data.v # {},
              ok |-> TRUE,
              calls |-> c1 \o c1]

\* one turn of the loop of test_organization_functions
OrganizationBody(country, r1, r2, r3) ==
    LET success1 == TestFunction(r1)
        c1 == <<AccessorCall("organizations", "list_organizations", country)>>
        c2 == <<AccessorCall("organizations", "get_organization_details", country)>>
        org_name == FirstField(r2, "name")
    IN  IF ~success1
        THEN [ok |-> FALSE, calls |-> c1]
        ELSE IF org_name.st # "value"
        THEN [ok |-> FALSE, calls |-> c1 \o c1]
        ELSE [ok |-> TestFunction(r3), calls |-> c1 \o c1 \o c2]

\* mutant: the result of the list step does not enter the result
DatasetBodyWithoutList(country, r1, r2, r3, r4) ==
    LET success2 == TestFunction(r2)
        c1 == <<AccessorCall("datasets", "list_datasets", country)>>
        c2 == <<AccessorCall("datasets", "search_datasets", country)>>
        c3 == <<AccessorCall("datasets", "get_dataset_details", country)>>
        dataset_name == FirstField(r3, "name")
    IN  IF ~success2
        THEN [ok |-> FALSE, calls |-> c1 \o c2]
        ELSE IF dataset_name.st # "value"
        THEN [ok |-> FALSE, calls |-> c1 \o c2 \o c2]
        ELSE [ok |-> success2 /\ TestFunction(r4),
              calls |-> c1 \o c2 \o c2 \o c3]

\* one turn of the loop of test_dataset_functions
DatasetBody(country, r1, r2, r3, r4) ==
    LET success1 == TestFunction(r1)
        success2 == TestFunction(r2)
        c1 == <<AccessorCall("datasets", "list_datasets", country)>>
        c2 == <<AccessorCall("datasets", "search_datasets", country)>>
        c3 == <<AccessorCall("datasets", "get_dataset_details", country)>>
        dataset_name == FirstField(r3, "name")
    IN  IF ~success2
        THEN [ok |-> FALSE, calls |-> c1 \o c2]
        ELSE IF dataset_name.st # "value"
        THEN [ok |-> FALSE, calls |-> c1 \o c2 \o c2]
        ELSE [ok |-> success1 /\ success2 /\ TestFunction(r4),
              calls |-> c1 \o c2 \o c2 \o c3]

\* one turn of the loop of test_resource_functions
ResourceBody(country, r1, r2, r3, r4) ==
    LET c1 == <<AccessorCall("resources", "search_datasets", country)>>
        c2 == <<AccessorCall("resources", "get_dataset_resources", country)>>
        c3 == <<AccessorCall("resources", "get_resource_details", country)>>
        dataset_name == FirstField(r1, "name")
        success1 == TestFunction(r2)
        resource_id == FirstField(r3, "id")
    IN  IF dataset_name.st # "value" \/ ~Truthy(dataset_name.v)
        THEN [ok |-> FALSE, calls |-> c1]
        ELSE IF ~success1
        THEN [ok |-> FALSE, calls |-> c1 \o c2]
        ELSE IF resource_id.st # "value"
        THEN [ok |-> FALSE, calls |-> c1 \o c2 \o c2]
        ELSE [ok |-> success1 /\ TestFunction(r4), calls |-> c1 \o c2 \o c2 \o c3]

WorkflowFailedAsPassed(cs) == [ok |-> TRUE, calls |-> cs]
\* "return False" in test_integrated_workflow, having issued the calls cs
WorkflowFailed(cs) == [ok |-> FALSE, calls |-> cs]

\* test_integrated_workflow(countries): r1..r4 answer search_datasets,
\* get_dataset_details, get_dataset_resources and get_organization_details
\* in that order; every exception ends in the except clause, which returns False
IntegratedWorkflow(r1, r2, r3, r4) ==
    LET country == WORKFLOW_COUNTRY
        c1 == <<AccessorCall("workflow", "search_datasets", country)>>
        c2 == <<AccessorCall("workflow", "get_dataset_details", country)>>
        c3 == <<AccessorCall("workflow", "get_dataset_resources", country)>>
        c4 == <<AccessorCall("workflow", "get_organization_details", country)>>
        Fail(cs) == WorkflowFailed(cs)
    IN  \* step 1
        IF r1.raised \/ ~CanSub(r1.value, "error") THEN Fail(c1)
        ELSE IF Truthy(r1.value.v.error) THEN Fail(c1)
        ELSE IF ~CanSub(r1.value, "data") THEN Fail(c1)
        ELSE IF ~Truthy(r1.value.v.data) THEN Fail(c1)
        ELSE IF r1.value.v.data.t # "list" THEN Fail(c1)
        ELSE IF ~CanSub(r1.value.v.data.v[1], "name") THEN Fail(c1)
        \* step 2
        ELSE IF r2.raised \/ ~CanSub(r2.value, "error") THEN Fail(c1 \o c2)
        ELSE IF Truthy(r2.value.v.error) THEN Fail(c1 \o c2)
        ELSE IF ~CanSub(r2.value, "data") THEN Fail(c1 \o c2)
        ELSE IF ~CanSub(r2.value.v.data, "title") THEN Fail(c1 \o c2)
        \* step 3
        ELSE IF r3.raised \/ ~CanSub(r3.value, "error") THEN Fail(c1 \o c2 \o c3)
        ELSE IF Truthy(r3.value.v.error) THEN Fail(c1 \o c2 \o c3)
        ELSE IF ~CanSub(r3.value, "data") THEN Fail(c1 \o c2 \o c3)
        ELSE IF r3.value.v.data.t \notin {"list", "dict", "str"}
             THEN Fail(c1 \o c2 \o c3)
        \* step 4
        ELSE LET dataset_details == r2.value.v.data
                 organization ==
                     IF "organization" \in DOMAIN dataset_details.v
                     THEN dataset_details.v.organization
                     ELSE PyDict(EmptyDict)
             IN  IF organization.t # "dict"
                 THEN Fail(c1 \o c2 \o c3)
                 ELSE LET org_name == DictGet(organization.v, "name", PyNone)
                      IN  IF ~Truthy(org_name)
                          THEN [ok |-> TRUE, calls |-> c1 \o c2 \o c3]
                          ELSE IF r4.raised \/ ~CanSub(r4.value, "error")
                          THEN Fail(c1 \o c2 \o c3 \o c4)
                          ELSE IF Truthy(r4.value.v.error)
                          THEN [ok |-> TRUE, calls |-> c1 \o c2 \o c3 \o c4]
                          ELSE IF ~CanSub(r4.value, "data")
                          THEN Fail(c1 \o c2 \o c3 \o c4)
                          ELSE IF ~CanSub(r4.value.v.data, "title")
                          THEN Fail(c1 \o c2 \o c3 \o c4)
                          ELSE [ok |-> TRUE, calls |-> c1 \o c2 \o c3 \o c4]

\* a Python dict of per-country results, in insertion order
ResultsPut(d, k, v) ==
    IF \E i \in 1..Len(d) : d[i].k = k
    THEN [i \in 1..Len(d) |-> IF d[i].k = k THEN [k |-> k, v |-> v] ELSE d[i]]
    ELSE Append(d, [k |-> k, v |-> v])
ResultsKeys(d) == {d[i].k : i \in 1..Len(d)}
\* sum(d.values())
SumValues(d) == Cardinality({i \in 1..Len(d) : d[i].v})
WorkingCountriesUnfiltered(d) == [i \in 1..Len(d) |-> d[i].k]
\* [c for c, success in d.items() if success]
WorkingCountries(d) ==
    LET idxs == {i \in 1..Len(d) : d[i].v}
        F[n \in 0..Len(d)] ==
            IF n = 0 THEN <<>>
            ELSE IF n \in idxs THEN Append(F[n - 1], d[n].k) ELSE F[n - 1]
    IN  F[Len(d)]

\* countries[:n]
Slice(s, n) == SubSeq(s, 1, IF Len(s) < n THEN Len(s) ELSE n)

AssessmentMoreThanHalf(connections, workflow) ==
    LET successes == SumValues(connections)
        total == Len(connections)
    IN  IF successes = total /\ workflow THEN "all_passed"
        ELSE IF 2 * successes > total THEN "partial"
        ELSE "mostly_failed"
\* the overall assessment of run_all_tests; the rate successes/total*100 is
\* exactly 100 when successes = total and at least 50 when 2*successes >= total
Assessment(connections, workflow) ==
    LET successes == SumValues(connections)
        total == Len(connections)
    IN  IF successes = total /\ workflow THEN "all_passed"
        ELSE IF 2 * successes >= total THEN "partial"
        ELSE "mostly_failed"

(* ------------------------------------------------------------------ *)
(* The Treasury client as a state machine: one call per process        *)
(* ------------------------------------------------------------------ *)
VARIABLES
    tpc,        \* "idle" before the call, "returned" after it
    call,       \* the accessor called and its arguments
    result,     \* the envelope it returned
    net,        \* the network requests it issued, in order
    answers,    \* what the remote service answered to a single accessor call
    test_results, \* test_endpoints: the results of the tests run so far
    rpc,        \* where run_all_tests is
    countries,  \* run_all_tests: its countries argument
    fast_mode,  \* run_all_tests: its fast_mode argument
    targets,    \* run_all_tests: countries once the default is filled in
    idx,        \* the turn of the loop of the test group being run
    supported_countries,  \* test_results['supported_countries']
    connection_results,   \* per-country results of test_portal_connections
    working_countries,    \* the countries whose connection test passed
    organization_results, \* per-country results of test_organization_functions
    dataset_results,      \* per-country results of test_dataset_functions
    resource_results,     \* per-country results of test_resource_functions
    integrated_workflow,  \* test_results['integrated_workflow']
    calls,      \* the accessor calls the run has issued, in order
    wf_answers, \* what the accessors answered to the workflow's calls
    faults,     \* the accessor calls of the run that did not plainly succeed
    assessment, \* the overall assessment printed
    success,    \* what run_all_tests returned
    vpc,        \* "idle" before a lone call of test_function, "returned" after
    test_outcome, \* what the function under test did in that call
    passed,     \* what test_function returned
    exit_code,  \* the exit status of the Treasury command line, -1 while it runs
    harness_exit_code, \* the exit status of the test harness, -1 while it runs
    gpc,        \* "idle" before a lone call of a test group, "returned" after
    group_call, \* the group called, its country, and what its accessors answered
    group_result \* the result it recorded for the country, and the calls it issued

treasuryVars == <<tpc, call, result, net, answers, test_results>>
runnerVars ==
    <<rpc, countries, fast_mode, targets, idx, supported_countries,
      connection_results, working_countries, organization_results,
      dataset_results, resource_results, integrated_workflow, calls, wf_answers,
      faults, assessment, success>>
validationVars == <<vpc, test_outcome, passed>>
exitVars == <<exit_code, harness_exit_code>>
groupVars == <<gpc, group_call, group_result>>
vars == <<treasuryVars, runnerVars, validationVars, groupVars, exitVars>>

\* run_all_tests not yet entered
RunnerIdle ==
    /\ rpc = "idle"
    /\ countries = PyNone
    /\ fast_mode = FALSE
    /\ targets = <<>>
    /\ idx = 1
    /\ supported_countries = FALSE
    /\ connection_results = <<>>
    /\ working_countries = <<>>
    /\ organization_results = <<>>
    /\ dataset_results = <<>>
    /\ resource_results = <<>>
    /\ integrated_workflow = FALSE
    /\ calls = <<>>
    /\ wf_answers = <<>>
    /\ faults = 0
    /\ assessment = "none"
    /\ success = FALSE

\* test_function not yet called on its own
ValidationIdle ==
    /\ vpc = "idle"
    /\ test_outcome = Returned(PyNone)
    /\ passed = FALSE

\* no test group called on its own yet
GroupIdle ==
    /\ gpc = "idle"
    /\ group_call = [group |-> "none", country |-> "-", answers |-> <<>>]
    /\ group_result = [ok |-> FALSE, calls |-> <<>>]

\* inputs the calls are tried on
Endpoints == {S_ep_debt, S_ep_interest}
OptDates == {PyNone, PyStr(<<>>), PyStr(S_date1), PyStr(S_date2)}
OptFields == {PyNone, PyStr(<<>>), PyStr(S_fields_debt)}
OptFilters == {PyNone, PyStr(<<>>), PyStr(S_record_date_gte \o S_date1)}
OptSorts == {PyNone, PyStr(S_sort_desc)}
Pages == {<<DEFAULT_PAGE_SIZE, 1>>, <<5, 2>>}
CallerParams ==
    { PyNone, PyDict(EmptyDict), PyDict("page[size]" :> 5),
      PyDict(("format" :> "xml") @@ ("sort" :> S_sort_desc)) }
QueryAlphabet == {"d", "e", "_", " ", "T"}
Queries ==
    SeqsUpTo(QueryAlphabet, MaxQueryLen)
        \cup {S_debt, S_DEBT, S_debt_penny, S_accounting}
Categories == {S_accounting, S_debt, S_nonexistent, <<>>, <<"r","c">>}

TreasuryInit ==
    /\ tpc = "idle"
    /\ call = [fn |-> "none"]
    /\ result = PyNone
    /\ net = <<>>
    /\ answers = <<>>
    /\ test_results = <<>>
    /\ RunnerIdle
    /\ ValidationIdle
    /\ GroupIdle
    /\ exit_code = -1
    /\ harness_exit_code = -1

\* the call returns r.result having issued r.net, answered by remotes
Return(fn, args, r, remotes) ==
    /\ tpc' = "returned"
    /\ call' = [fn |-> fn, args |-> args]
    /\ result' = r.result
    /\ net' = r.net
    /\ answers' = remotes
    /\ UNCHANGED test_results
    /\ UNCHANGED <<runnerVars, validationVars, groupVars, exitVars>>

NoNet(envelope) == [result |-> envelope, net |-> <<>>]

CallMakeRequest ==
    /\ tpc = "idle"
    /\ \E ep \in Endpoints, params \in CallerParams, remote \in RemoteOutcomes :
           Return("_make_request", <<ep, params>>, MakeRequest(ep, params, remote), <<remote>>)

CallGetCatalogue ==
    /\ tpc = "idle"
    /\ Return("get_catalogue", <<>>, NoNet(GetCatalogue), <<>>)

CallGetDatasetsByCategory ==
    /\ tpc = "idle"
    /\ \E category \in Categories :
           Return("get_datasets_by_category", <<category>>,
                  NoNet(GetDatasetsByCategory(category)), <<>>)

CallGetDatasetData ==
    /\ tpc = "idle"
    /\ \E ep \in Endpoints, fields \in OptFields, filter \in OptFilters,
          sort \in OptSorts, page \in Pages, remote \in RemoteOutcomes :
           Return("get_dataset_data", <<ep, fields, filter, sort, page[1], page[2]>>,
                  GetDatasetData(ep, fields, filter, sort, page[1], page[2], remote), <<remote>>)

CallGetDatasetSummary ==
    /\ tpc = "idle"
    /\ \E ep \in Endpoints, remote \in RemoteOutcomes :
           Return("get_dataset_summary", <<ep>>, GetDatasetSummary(ep, remote), <<remote>>)

CallGetDebtToPenny ==
    /\ tpc = "idle"
    /\ \E s \in OptDates, e \in OptDates, remote \in RemoteOutcomes :
           Return("get_debt_to_penny", <<s, e>>, GetDebtToPenny(s, e, remote), <<remote>>)

CallGetTreasuryYieldRates ==
    /\ tpc = "idle"
    /\ \E s \in OptDates, e \in OptDates, remote \in RemoteOutcomes :
           Return("get_treasury_yield_rates", <<s, e>>, GetTreasuryYieldRates(s, e, remote), <<remote>>)

CallGetMonthlyTreasuryStatement ==
    /\ tpc = "idle"
    /\ \E s \in OptDates, e \in OptDates, remote \in RemoteOutcomes :
           Return("get_monthly_treasury_statement", <<s, e>>,
                  GetMonthlyTreasuryStatement(s, e, remote), <<remote>>)

CallGetInterestExpense ==
    /\ tpc = "idle"
    /\ \E s \in OptDates, e \in OptDates, remote \in RemoteOutcomes :
           Return("get_interest_expense", <<s, e>>, GetInterestExpense(s, e, remote), <<remote>>)

CallSearchDatasets ==
    /\ tpc = "idle"
    /\ \E query \in Queries :
           Return("search_datasets", <<query>>, NoNet(SearchDatasets(query)), <<>>)

\* lines 599-605, 626-632, 635-641: the three tests that use no network
CatalogueTest == TestResult("get_catalogue", GetCatalogue)
SearchTest == TestResult("search_datasets", SearchDatasets(S_debt))
CategoryTest == TestResult("get_datasets_by_category", GetDatasetsByCategory(S_accounting))

\* test_endpoints() runs its five tests one after the other
TestCatalogue ==
    /\ tpc = "idle"
    /\ tpc' = "test_debt"
    /\ call' = [fn |-> "test_endpoints", args |-> <<>>]
    /\ test_results' = <<CatalogueTest>>
    /\ UNCHANGED <<result, net, answers>>
    /\ UNCHANGED <<runnerVars, validationVars, groupVars, exitVars>>

TestDebtToPenny ==
    /\ tpc = "test_debt"
    /\ \E remote \in RemoteOutcomes :
           LET r == GetDebtToPenny(PyNone, PyNone, remote)
           IN  /\ test_results' =
                      Append(test_results, TestResult("get_debt_to_penny", r.result))
               /\ net' = net \o r.net
    /\ tpc' = "test_yields"
    /\ UNCHANGED <<call, result, answers>>
    /\ UNCHANGED <<runnerVars, validationVars, groupVars, exitVars>>

TestTreasuryYieldRates ==
    /\ tpc = "test_yields"
    /\ \E remote \in RemoteOutcomes :
           LET r == GetTreasuryYieldRates(PyNone, PyNone, remote)
           IN  /\ test_results' =
                      Append(test_results, TestResult("get_treasury_yield_rates", r.result))
               /\ net' = net \o r.net
    /\ tpc' = "test_search"
    /\ UNCHANGED <<call, result, answers>>
    /\ UNCHANGED <<runnerVars, validationVars, groupVars, exitVars>>

TestSearch ==
    /\ tpc = "test_search"
    /\ tpc' = "test_category"
    /\ test_results' = Append(test_results, SearchTest)
    /\ UNCHANGED <<call, result, net, answers>>
    /\ UNCHANGED <<runnerVars, validationVars, groupVars, exitVars>>

TestCategory ==
    /\ tpc = "test_category"
    /\ tpc' = "test_summary"
    /\ test_results' = Append(test_results, CategoryTest)
    /\ UNCHANGED <<call, result, net, answers>>
    /\ UNCHANGED <<runnerVars, validationVars, groupVars, exitVars>>

TestEndpointsReturn ==
    /\ tpc = "test_summary"
    /\ tpc' = "returned"
    /\ result' = TestEndpointsEnvelope(test_results)
    /\ UNCHANGED <<call, net, answers, test_results>>
    /\ UNCHANGED <<runnerVars, validationVars, groupVars, exitVars>>

\* lines 736-738: main without a command prints the help and exits 1
MainNoCommand ==
    /\ tpc = "idle"
    /\ tpc' = "usage"
    /\ exit_code' = 1
    /\ UNCHANGED <<call, result, net, answers, test_results>>
    /\ UNCHANGED <<runnerVars, validationVars, groupVars, harness_exit_code>>

\* lines 768-773: main prints the envelope its command returned and exits 1
\* if result.get('error') is truthy; otherwise it runs off its end, status 0.
\* Every accessor but _make_request is behind a command.
MainExit ==
    /\ tpc = "returned"
    /\ exit_code = -1
    /\ call.fn # "_make_request"
    /\ exit_code' = IF Truthy(result.error) THEN 1 ELSE 0
    /\ UNCHANGED <<treasuryVars, runnerVars, validationVars, groupVars, harness_exit_code>>

TreasuryNext ==
    \/ CallMakeRequest
    \/ CallGetCatalogue
    \/ CallGetDatasetsByCategory
    \/ CallGetDatasetData
    \/ CallGetDatasetSummary
    \/ CallGetDebtToPenny
    \/ CallGetTreasuryYieldRates
    \/ CallGetMonthlyTreasuryStatement
    \/ CallGetInterestExpense
    \/ CallSearchDatasets
    \/ TestCatalogue
    \/ TestDebtToPenny
    \/ TestTreasuryYieldRates
    \/ TestSearch
    \/ TestCategory
    \/ TestEndpointsReturn
    \/ MainNoCommand
    \/ MainExit

TreasurySpec == TreasuryInit /\ [][TreasuryNext]_vars

(* ------------------------------------------------------------------ *)
(* The CKAN test harness as a state machine: one run of run_all_tests  *)
(* ------------------------------------------------------------------ *)
\* the country lists a run is started on
TargetCountries == {"us", "uk", "it"}
CountryLists ==
    {s \in SeqsUpTo(TargetCountries, MaxCountries) :
        \A i, j \in 1..Len(s) : s[i] = s[j] => i = j}
CountriesArguments == {PyNone} \cup {PyList(s) : s \in CountryLists}

\* the outcomes the next accessor call may have: any of them while the call
\* is reached and the run has faults to spend, else the plain success
Pick(outcomes, ok, used, reached) ==
    IF reached /\ faults + used < MaxFaults THEN outcomes ELSE {ok}
IsFault(r) == IF r \in {OkList, OkDetails} THEN 0 ELSE 1

\* run_all_tests(countries, fast_mode) is entered
RunAllTests ==
    /\ rpc = "idle"
    /\ \E c \in CountriesArguments, f \in BOOLEAN :
           /\ countries' = c
           /\ fast_mode' = f
           /\ targets' = IF IsNone(c) THEN ALL_COUNTRIES ELSE c.v
    /\ rpc' = "supported"
    /\ UNCHANGED <<idx, supported_countries, connection_results, working_countries,
                   organization_results, dataset_results, resource_results,
                   integrated_workflow, calls, wf_answers, faults, assessment,
                   success>>
    /\ UNCHANGED <<treasuryVars, validationVars, groupVars, exitVars>>

TestSupportedCountries ==
    /\ rpc = "supported"
    /\ \E r1 \in Pick(ListOutcomes, OkList, 0, TRUE) :
       \E r2 \in Pick(ListOutcomes, OkList, IsFault(r1), TestFunction(r1)) :
           LET t == SupportedCountries(r1, r2)
           IN  /\ calls' = calls \o t.calls
               /\ faults' = faults + IsFault(r1) + IsFault(r2)
               /\ IF t.raised
                  THEN /\ rpc' = "raised"
                       /\ UNCHANGED supported_countries
                  ELSE /\ rpc' = "connections"
                       /\ supported_countries' = t.ok
    /\ idx' = 1
    /\ UNCHANGED <<countries, fast_mode, targets, connection_results,
                   working_countries, organization_results, dataset_results,
                   resource_results, integrated_workflow, wf_answers, assessment,
                   success>>
    /\ UNCHANGED <<treasuryVars, validationVars, groupVars, exitVars>>

\* the countries test_portal_connections goes through
ConnectionCountries == IF fast_mode THEN FAST_COUNTRIES ELSE targets

\* one turn of the loop of test_portal_connections
TestPortalConnection ==
    /\ rpc = "connections"
    /\ idx <= Len(ConnectionCountries)
    /\ \E r \in Pick(ListOutcomes, OkList, 0, TRUE) :
           LET country == ConnectionCountries[idx]
           IN  /\ connection_results' =
                      ResultsPut(connection_results, country, TestFunction(r))
               /\ calls' = Append(calls,
                      AccessorCall("connections", "test_portal_connection", country))
               /\ faults' = faults + IsFault(r)
    /\ idx' = idx + 1
    /\ UNCHANGED <<rpc, countries, fast_mode, targets, supported_countries,
                   working_countries, organization_results, dataset_results,
                   resource_results, integrated_workflow, wf_answers, assessment,
                   success>>
    /\ UNCHANGED <<treasuryVars, validationVars, groupVars, exitVars>>

\* test_portal_connections returns; run_all_tests keeps the countries that
\* passed and goes on to the groups, or skips them when none passed
PortalConnectionsReturn ==
    /\ rpc = "connections"
    /\ idx > Len(ConnectionCountries)
    /\ working_countries' = WorkingCountries(connection_results)
    /\ IF WorkingCountries(connection_results) # <<>>
       THEN /\ rpc' = "organizations"
            /\ UNCHANGED integrated_workflow
       ELSE /\ rpc' = "summary"
            /\ integrated_workflow' = FALSE
    /\ idx' = 1
    /\ UNCHANGED <<countries, fast_mode, targets, supported_countries,
                   connection_results, organization_results, dataset_results,
                   resource_results, calls, wf_answers, faults, assessment,
                   success>>
    /\ UNCHANGED <<treasuryVars, validationVars, groupVars, exitVars>>

\* the countries each group goes through
OrganizationCountries ==
    IF fast_mode THEN Slice(working_countries, 2) ELSE working_countries
DatasetCountries ==
    IF fast_mode THEN Slice(working_countries, 2) ELSE working_countries
ResourceCountries ==
    IF fast_mode THEN Slice(working_countries, 1) ELSE working_countries

\* one turn of the loop of test_organization_functions
TestOrganizationFunctions ==
    /\ rpc = "organizations"
    /\ idx <= Len(OrganizationCountries)
    /\ LET country == OrganizationCountries[idx]
           Reached(n, r1, r2) ==
               Len(OrganizationBody(country, r1, r2, OkDetails).calls) >= n
       IN  \E r1 \in Pick(ListOutcomes, OkList, 0, TRUE) :
           \E r2 \in Pick(ListOutcomes, OkList, IsFault(r1), Reached(2, r1, OkList)) :
           \E r3 \in Pick(DetailsOutcomes, OkDetails, IsFault(r1) + IsFault(r2),
                          Reached(3, r1, r2)) :
               LET t == OrganizationBody(country, r1, r2, r3)
               IN  /\ organization_results' =
                          ResultsPut(organization_results, country, t.ok)
                   /\ calls' = calls \o t.calls
                   /\ faults' = faults + IsFault(r1) + IsFault(r2) + IsFault(r3)
    /\ idx' = idx + 1
    /\ UNCHANGED <<rpc, countries, fast_mode, targets, supported_countries,
                   connection_results, working_countries, dataset_results,
                   resource_results, integrated_workflow, wf_answers, assessment,
                   success>>
    /\ UNCHANGED <<treasuryVars, validationVars, groupVars, exitVars>>

OrganizationFunctionsReturn ==
    /\ rpc = "organizations"
    /\ idx > Len(OrganizationCountries)
    /\ rpc' = "datasets"
    /\ idx' = 1
    /\ UNCHANGED <<countries, fast_mode, targets, supported_countries,
                   connection_results, working_countries, organization_results,
                   dataset_results, resource_results, integrated_workflow, calls,
                   wf_answers, faults, assessment, success>>
    /\ UNCHANGED <<treasuryVars, validationVars, groupVars, exitVars>>

\* one turn of the loop of test_dataset_functions
TestDatasetFunctions ==
    /\ rpc = "datasets"
    /\ idx <= Len(DatasetCountries)
    /\ LET country == DatasetCountries[idx]
           Reached(n, r1, r2, r3) ==
               Len(DatasetBody(country, r1, r2, r3, OkDetails).calls) >= n
       IN  \E r1 \in Pick(ListOutcomes, OkList, 0, TRUE) :
           \E r2 \in Pick(ListOutcomes, OkList, IsFault(r1), TRUE) :
           \E r3 \in Pick(ListOutcomes, OkList, IsFault(r1) + IsFault(r2),
                          Reached(3, r1, r2, OkList)) :
           \E r4 \in Pick(DetailsOutcomes, OkDetails,
                          IsFault(r1) + IsFault(r2) + IsFault(r3),
                          Reached(4, r1, r2, r3)) :
               LET t == DatasetBody(country, r1, r2, r3, r4)
               IN  /\ dataset_results' = ResultsPut(dataset_results, country, t.ok)
                   /\ calls' = calls \o t.calls
                   /\ faults' = faults + IsFault(r1) + IsFault(r2) + IsFault(r3)
                                       + IsFault(r4)
    /\ idx' = idx + 1
    /\ UNCHANGED <<rpc, countries, fast_mode, targets, supported_countries,
                   connection_results, working_countries, organization_results,
                   resource_results, integrated_workflow, wf_answers, assessment,
                   success>>
    /\ UNCHANGED <<treasuryVars, validationVars, groupVars, exitVars>>

DatasetFunctionsReturn ==
    /\ rpc = "datasets"
    /\ idx > Len(DatasetCountries)
    /\ rpc' = "resources"
    /\ idx' = 1
    /\ UNCHANGED <<countries, fast_mode, targets, supported_countries,
                   connection_results, working_countries, organization_results,
                   dataset_results, resource_results, integrated_workflow, calls,
                   wf_answers, faults, assessment, success>>
    /\ UNCHANGED <<treasuryVars, validationVars, groupVars, exitVars>>

\* one turn of the loop of test_resource_functions
TestResourceFunctions ==
    /\ rpc = "resources"
    /\ idx <= Len(ResourceCountries)
    /\ LET country == ResourceCountries[idx]
           Reached(n, r1, r2, r3) ==
               Len(ResourceBody(country, r1, r2, r3, OkDetails).calls) >= n
       IN  \E r1 \in Pick(ListOutcomes, OkList, 0, TRUE) :
           \E r2 \in Pick(ListOutcomes, OkList, IsFault(r1),
                          Reached(2, r1, OkList, OkList)) :
           \E r3 \in Pick(ListOutcomes, OkList, IsFault(r1) + IsFault(r2),
                          Reached(3, r1, r2, OkList)) :
           \E r4 \in Pick(DetailsOutcomes, OkDetails,
                          IsFault(r1) + IsFault(r2) + IsFault(r3),
                          Reached(4, r1, r2, r3)) :
               LET t == ResourceBody(country, r1, r2, r3, r4)
               IN  /\ resource_results' = ResultsPut(resource_results, country, t.ok)
                   /\ calls' = calls \o t.calls
                   /\ faults' = faults + IsFault(r1) + IsFault(r2) + IsFault(r3)
                                       + IsFault(r4)
    /\ idx' = idx + 1
    /\ UNCHANGED <<rpc, countries, fast_mode, targets, supported_countries,
                   connection_results, working_countries, organization_results,
                   dataset_results, integrated_workflow, wf_answers, assessment,
                   success>>
    /\ UNCHANGED <<treasuryVars, validationVars, groupVars, exitVars>>

ResourceFunctionsReturn ==
    /\ rpc = "resources"
    /\ idx > Len(ResourceCountries)
    /\ rpc' = "workflow"
    /\ idx' = 1
    /\ UNCHANGED <<countries, fast_mode, targets, supported_countries,
                   connection_results, working_countries, organization_results,
                   dataset_results, resource_results, integrated_workflow, calls,
                   wf_answers, faults, assessment, success>>
    /\ UNCHANGED <<treasuryVars, validationVars, groupVars, exitVars>>

\* test_integrated_workflow(working_countries), called and returned
TestIntegratedWorkflow ==
    /\ rpc = "workflow"
    /\ LET Reached(n, r1, r2, r3) ==
               Len(IntegratedWorkflow(r1, r2, r3, OkDetails).calls) >= n
       IN  \E r1 \in Pick(ListOutcomes, OkList, 0, TRUE) :
           \E r2 \in Pick(DetailsOutcomes, OkDetails, IsFault(r1),
                          Reached(2, r1, OkDetails, OkList)) :
           \E r3 \in Pick(ListOutcomes, OkList, IsFault(r1) + IsFault(r2),
                          Reached(3, r1, r2, OkList)) :
           \E r4 \in Pick(DetailsOutcomes, OkDetails,
                          IsFault(r1) + IsFault(r2) + IsFault(r3),
                          Reached(4, r1, r2, r3)) :
               LET t == IntegratedWorkflow(r1, r2, r3, r4)
               IN  /\ integrated_workflow' = t.ok
                   /\ calls' = calls \o t.calls
                   /\ wf_answers' = SubSeq(<<r1, r2, r3, r4>>, 1, Len(t.calls))
                   /\ faults' = faults + IsFault(r1) + IsFault(r2) + IsFault(r3)
                                       + IsFault(r4)
    /\ rpc' = "summary"
    /\ UNCHANGED <<countries, fast_mode, targets, idx, supported_countries,
                   connection_results, working_countries, organization_results,
                   dataset_results, resource_results, assessment, success>>
    /\ UNCHANGED <<treasuryVars, validationVars, groupVars, exitVars>>

\* the summary and the overall assessment; the connection success rate
\* divides by the number of connection results
RunAllTestsReturn ==
    /\ rpc = "summary"
    /\ IF Len(connection_results) = 0
       THEN /\ rpc' = "raised"
            /\ UNCHANGED <<assessment, success>>
       ELSE /\ rpc' = "done"
            /\ assessment' = Assessment(connection_results, integrated_workflow)
            /\ success' =
                   (Assessment(connection_results, integrated_workflow) = "all_passed")
    /\ UNCHANGED <<countries, fast_mode, targets, idx, supported_countries,
                   connection_results, working_countries, organization_results,
                   dataset_results, resource_results, integrated_workflow, calls,
                   wf_answers, faults>>
    /\ UNCHANGED <<treasuryVars, validationVars, groupVars, exitVars>>

\* lines 455-466: main given --country with a name outside ALL_COUNTRIES
\* exits 1 before any test
HarnessMainInvalidCountry ==
    /\ rpc = "idle"
    /\ rpc' = "rejected"
    /\ harness_exit_code' = 1
    /\ UNCHANGED <<countries, fast_mode, targets, idx, supported_countries,
                   connection_results, working_countries, organization_results,
                   dataset_results, resource_results, integrated_workflow, calls,
                   wf_answers, faults, assessment, success>>
    /\ UNCHANGED <<treasuryVars, validationVars, groupVars, exit_code>>

\* lines 469-472: sys.exit(0 if success else 1); an exception run_all_tests
\* let through ends the interpreter with status 1. main passes None or a
\* list of one country.
HarnessMainExit ==
    /\ rpc \in {"done", "raised"}
    /\ harness_exit_code = -1
    /\ IF IsNone(countries) THEN TRUE ELSE Len(countries.v) = 1
    /\ harness_exit_code' = IF rpc = "done" /\ success THEN 0 ELSE 1
    /\ UNCHANGED <<runnerVars, treasuryVars, validationVars, groupVars, exit_code>>

RunnerNext ==
    \/ RunAllTests
    \/ TestSupportedCountries
    \/ TestPortalConnection
    \/ PortalConnectionsReturn
    \/ TestOrganizationFunctions
    \/ OrganizationFunctionsReturn
    \/ TestDatasetFunctions
    \/ DatasetFunctionsReturn
    \/ TestResourceFunctions
    \/ ResourceFunctionsReturn
    \/ TestIntegratedWorkflow
    \/ RunAllTestsReturn
    \/ HarnessMainInvalidCountry
    \/ HarnessMainExit

RunnerSpec == TreasuryInit /\ [][RunnerNext]_vars

(* ------------------------------------------------------------------ *)
(* test_function on its own: one call, on everything the function       *)
(* under test may do                                                    *)
(* ------------------------------------------------------------------ *)
MetadataKeys == {"source", "country", "last_updated", "count", "portal"}

\* metadata values tried: a dictionary with any of the keys, None, and a
\* list of the four required names
MetadataValues ==
    { PyDict([k \in ks |-> IF k = "count" THEN 1 ELSE "x"]) : ks \in SUBSET MetadataKeys }
        \cup {PyNone, PyList(required_metadata)}

\* error values tried: None, the empty string, a message
ErrorValues == {PyNone, PyStr(<<>>), PyStr(S_boom)}

\* the mappings tried: any of the three fields present or absent
ResultMappings ==
    UNION { { PyDict([k \in ks |-> IF k = "error" THEN e
                                   ELSE IF k = "metadata" THEN m
                                   ELSE PyList(<<>>)]) :
                e \in (IF "error" \in ks THEN ErrorValues ELSE {PyNone}),
                m \in (IF "metadata" \in ks THEN MetadataValues ELSE {PyNone}) } :
            ks \in SUBSET {"data", "metadata", "error"} }

\* everything the function under test may do
TestedOutcomes ==
    {Raised(Exc({"Exception"}, S_boom, PyNone)), Returned(PyNone),
     Returned(PyList(<<>>)), Returned(PyStr(S_boom))}
        \cup {Returned(v) : v \in ResultMappings}

\* test_function(name, f) is called and returns
CallTestFunction ==
    /\ vpc = "idle"
    /\ \E r \in TestedOutcomes :
           /\ test_outcome' = r
           /\ passed' = TestFunction(r)
    /\ vpc' = "returned"
    /\ UNCHANGED <<treasuryVars, runnerVars, groupVars, exitVars>>

ValidationNext == CallTestFunction

ValidationSpec == TreasuryInit /\ [][ValidationNext]_vars

(* ------------------------------------------------------------------ *)
(* The multi-step test groups on their own: one group called with one   *)
(* country, on everything its accessor calls may answer                 *)
(* ------------------------------------------------------------------ *)
\* the group returns, having recorded t.ok for the country
GroupReturn(group, country, rs, t) ==
    /\ gpc' = "returned"
    /\ group_call' = [group |-> group, country |-> country, answers |-> rs]
    /\ group_result' = t
    /\ UNCHANGED <<treasuryVars, runnerVars, validationVars, exitVars>>

\* test_organization_functions([country])
CallOrganizationFunctions ==
    /\ gpc = "idle"
    /\ \E country \in TargetCountries :
       \E r1 \in ListOutcomes, r2 \in ListOutcomes, r3 \in DetailsOutcomes :
           GroupReturn("organizations", country, <<r1, r2, r3>>,
                       OrganizationBody(country, r1, r2, r3))

\* test_dataset_functions([country])
CallDatasetFunctions ==
    /\ gpc = "idle"
    /\ \E country \in TargetCountries :
       \E r1 \in ListOutcomes, r2 \in ListOutcomes, r3 \in ListOutcomes,
          r4 \in DetailsOutcomes :
           GroupReturn("datasets", country, <<r1, r2, r3, r4>>,
                       DatasetBody(country, r1, r2, r3, r4))

\* test_resource_functions([country])
CallResourceFunctions ==
    /\ gpc = "idle"
    /\ \E country \in TargetCountries :
       \E r1 \in ListOutcomes, r2 \in ListOutcomes, r3 \in ListOutcomes,
          r4 \in DetailsOutcomes :
           GroupReturn("resources", country, <<r1, r2, r3, r4>>,
                       ResourceBody(country, r1, r2, r3, r4))

GroupNext ==
    \/ CallOrganizationFunctions
    \/ CallDatasetFunctions
    \/ CallResourceFunctions

GroupSpec == TreasuryInit /\ [][GroupNext]_vars

(* ------------------------------------------------------------------ *)
(* Claims about the Treasury client                                    *)
(* ------------------------------------------------------------------ *)
Returned1 == tpc = "returned"

DerivedAccessors ==
    {"get_debt_to_penny", "get_treasury_yield_rates",
     "get_monthly_treasury_statement", "get_interest_expense"}

\* the remote answered with a JSON object whose 'data' is null
AnsweredNullData ==
    /\ Len(answers) = 1
    /\ answers[1].kind = "response"
    /\ answers[1].body.json
    /\ answers[1].body.value.t = "dict"
    /\ "error" \notin DOMAIN answers[1].body.value.v
    /\ "data" \in DOMAIN answers[1].body.value.v
    /\ answers[1].body.value.v["data"].t = "none"

\* C1: every envelope an accessor returns, whatever the remote call did, has
\* exactly the fields data, metadata and error; its data is a list and never
\* None; its error is either None or a non-empty string.
C1_EnvelopeShape ==
    Returned1 =>
        /\ DOMAIN result = {"data", "metadata", "error"}
        /\ result.data.t = "list"
        /\ \/ result.error.t = "none"
           \/ result.error.t = "str" /\ Len(result.error.v) > 0

\* C1 witness: a derived accessor has returned after the remote sent 'data': null
C1_Witness ==
    /\ Returned1
    /\ call.fn \in DerivedAccessors
    /\ AnsweredNullData
    /\ result.error.t = "str"

\* C2 as claimed: every successful envelope carries metadata.count, equal to
\* the number of records in data.
C2_CountMatchesData ==
    (Returned1 /\ result.error.t = "none") =>
        /\ "count" \in DOMAIN result.metadata
        /\ result.metadata.count = Len(result.data.v)

\* C3: every error envelope has empty data and metadata that still names the
\* source and, under 'action' or 'endpoint', the operation that failed.
C3_ErrorEnvelope ==
    (Returned1 /\ result.error.t # "none") =>
        /\ result.data = PyList(<<>>)
        /\ "source" \in DOMAIN result.metadata
        /\ result.metadata.source = "us_treasury_fiscaldata"
        /\ \/ /\ "endpoint" \in DOMAIN result.metadata
              /\ Len(net) = 1
              /\ result.metadata.endpoint = net[1].endpoint
           \/ /\ "action" \in DOMAIN result.metadata
              /\ Len(net) = 0
              /\ result.metadata.action = call.fn

\* C3 witness: an error envelope of _make_request reached through an accessor
C3_Witness ==
    /\ Returned1
    /\ call.fn = "get_dataset_summary"
    /\ answers[1].kind = "response"
    /\ answers[1].status = 404
    /\ result.error.t = "str"

\* a date argument the accessor takes as given (not None, not empty)
Given(d) == d.t = "str" /\ d.v # <<>>

\* C4: the four derived accessors build the date filter exactly: start only
\* gives "record_date:gte:<start>", end only "record_date:lte:<end>", both
\* give the two joined by a comma, and with neither the expression is empty
\* and the parameters sent carry no 'filter' key.
C4_FilterConstruction ==
    (Returned1 /\ call.fn \in DerivedAccessors) =>
        LET s == call.args[1]
            e == call.args[2]
            sent == net[1].params
            gte == <<"r","e","c","o","r","d","_","d","a","t","e",":","g","t","e",":">>
            lte == <<"r","e","c","o","r","d","_","d","a","t","e",":","l","t","e",":">>
        IN  /\ Len(net) = 1
            /\ (Given(s) /\ ~Given(e)) =>
                   ("filter" \in DOMAIN sent /\ sent["filter"] = gte \o s.v)
            /\ (~Given(s) /\ Given(e)) =>
                   ("filter" \in DOMAIN sent /\ sent["filter"] = lte \o e.v)
            /\ (Given(s) /\ Given(e)) =>
                   ("filter" \in DOMAIN sent
                    /\ sent["filter"] = gte \o s.v \o <<",">> \o lte \o e.v)
            /\ (~Given(s) /\ ~Given(e)) => "filter" \notin DOMAIN sent

\* C4 witness: a call with both dates, and one with neither, have been made
C4_Witness ==
    /\ Returned1
    /\ call.fn = "get_interest_expense"
    /\ Given(call.args[1])
    /\ Given(call.args[2])
    /\ call.args[1] # call.args[2]
    /\ "filter" \in DOMAIN net[1].params

\* position of an endpoint in the registry
RegistryIndex(endpoint) ==
    CHOOSE k \in 1..Len(AvailableDatasets) : AvailableDatasets[k] = endpoint

\* C9: search results are in non-increasing match_score order and records of
\* equal score keep the order of the registry.
C9_SearchOrder ==
    (Returned1 /\ call.fn = "search_datasets") =>
        LET d == result.data.v
        IN  \A i \in 1..Len(d), j \in 1..Len(d) :
                i < j =>
                    /\ d[i].match_score >= d[j].match_score
                    /\ d[i].match_score = d[j].match_score =>
                           RegistryIndex(d[i].endpoint) < RegistryIndex(d[j].endpoint)

\* C9 witness: a search that returned several records of equal score
C9_Witness ==
    /\ Returned1
    /\ call.fn = "search_datasets"
    /\ Len(result.data.v) >= 3
    /\ result.data.v[1].match_score = result.data.v[2].match_score

\* C10 as claimed: for every query, the empty one included, every returned
\* record has match_score >= 1.
C10_EveryResultScores ==
    (Returned1 /\ call.fn = "search_datasets") =>
        \A i \in 1..Len(result.data.v) : result.data.v[i].match_score >= 1

\* C10 amended: for every non-empty query every returned path contains,
\* case-insensitively, at least one whitespace-split token of the query and
\* has match_score >= 1; the empty query returns the whole registry with
\* match_score 0.
C10_NonEmptyQueryScores ==
    (Returned1 /\ call.fn = "search_datasets") =>
        LET query == call.args[1]
            d == result.data.v
            tokens == StrSplit(StrLower(query))
        IN  /\ query # <<>> =>
                \A i \in 1..Len(d) :
                    /\ d[i].match_score >= 1
                    /\ \E k \in 1..Len(tokens) :
                           IsSubstr(tokens[k], StrLower(d[i].path))
            /\ query = <<>> =>
                /\ Len(d) = Len(AvailableDatasets)
                /\ \A i \in 1..Len(d) : d[i].match_score = 0

\* C10 witness: a mixed-case one-word query that returned records
C10_Witness ==
    /\ Returned1
    /\ call.fn = "search_datasets"
    /\ call.args[1] = <<"D","E","B","T">>
    /\ Len(result.data.v) > 0

(* ------------------------------------------------------------------ *)
(* Claims about the CKAN test harness                                  *)
(* ------------------------------------------------------------------ *)
GroupCalls(groups) == SelectSeq(calls, LAMBDA c : c.group \in groups)
FnsOf(cs) == [i \in 1..Len(cs) |-> cs[i].fn]
\* the accessors the integrated workflow has called, in order
WorkflowFns == FnsOf(GroupCalls({"workflow"}))
WorkflowRan == wf_answers # <<>>

\* C5: a country whose connection test failed gets no call of the
\* organization, dataset or resource test groups and is a key of none of
\* their result maps
C5_ConnectionGating ==
    \A i \in 1..Len(connection_results) :
        ~connection_results[i].v =>
            LET country == connection_results[i].k
                group_calls == GroupCalls({"organizations", "datasets", "resources"})
            IN  /\ \A j \in 1..Len(group_calls) : group_calls[j].country # country
                /\ country \notin ResultsKeys(organization_results)
                /\ country \notin ResultsKeys(dataset_results)
                /\ country \notin ResultsKeys(resource_results)

\* a finished run in which one country failed its connection test and the
\* three groups ran for another
C5_Witness ==
    /\ rpc = "done"
    /\ \E i \in 1..Len(connection_results) : ~connection_results[i].v
    /\ organization_results # <<>>
    /\ dataset_results # <<>>
    /\ resource_results # <<>>

\* what the workflow's steps were answered
AnsweredError(r) ==
    /\ ~r.raised
    /\ CanSub(r.value, "error")
    /\ Truthy(r.value.v.error)
AnsweredNoDatasets(r) ==
    /\ ~r.raised
    /\ CanSub(r.value, "error")
    /\ ~Truthy(r.value.v.error)
    /\ CanSub(r.value, "data")
    /\ r.value.v.data = PyList(<<>>)
StepFailed(r) == r.raised \/ AnsweredError(r)

\* C6: a failed search, details or resources step of the integrated workflow
\* ends the chain there with the result False, and nothing is raised out of
\* the workflow
C6_WorkflowShortCircuit ==
    /\ WorkflowRan =>
           /\ rpc # "raised"
           /\ (StepFailed(wf_answers[1]) \/ AnsweredNoDatasets(wf_answers[1])) =>
                  /\ WorkflowFns = <<"search_datasets">>
                  /\ ~integrated_workflow
           /\ (Len(wf_answers) >= 2 /\ StepFailed(wf_answers[2])) =>
                  /\ WorkflowFns = <<"search_datasets", "get_dataset_details">>
                  /\ ~integrated_workflow
           /\ (Len(wf_answers) >= 3 /\ StepFailed(wf_answers[3])) =>
                  /\ WorkflowFns = <<"search_datasets", "get_dataset_details",
                                     "get_dataset_resources">>
                  /\ ~integrated_workflow
    /\ rpc = "workflow" => WorkflowFns = <<>>

\* the workflow stopped at a dataset-details call answered by an error envelope
C6_Witness ==
    /\ WorkflowRan
    /\ Len(wf_answers) = 2
    /\ AnsweredError(wf_answers[2])
    /\ rpc = "done"

\* the search, details and resources steps of the workflow succeeded
RequiredStepsSucceeded ==
    /\ Len(wf_answers) >= 3
    /\ \A i \in 1..3 :
           /\ ~wf_answers[i].raised
           /\ CanSub(wf_answers[i].value, "error")
           /\ ~Truthy(wf_answers[i].value.v.error)
           /\ CanSub(wf_answers[i].value, "data")
    /\ wf_answers[1].value.v.data.t = "list"
    /\ Len(wf_answers[1].value.v.data.v) > 0
    /\ CanSub(wf_answers[1].value.v.data.v[1], "name")
    /\ CanSub(wf_answers[2].value.v.data, "title")

\* C7: once the search, details and resources steps have succeeded the
\* workflow returns True whatever the organization step does
C7_OrganizationBestEffort ==
    (WorkflowRan /\ RequiredStepsSucceeded) => integrated_workflow

\* C8: the run returns True exactly when every connection-tested country was
\* reachable and the workflow returned True; any other run returns False and
\* is assessed partial exactly when at least half were reachable, mostly
\* failed exactly when fewer were
C8_OverallVerdict ==
    rpc = "done" =>
        LET tested == 1..Len(connection_results)
            reachable == {i \in tested : connection_results[i].v}
            full == reachable = tested /\ integrated_workflow
        IN  /\ success <=> full
            /\ (assessment = "all_passed") <=> full
            /\ ~full =>
                   /\ (assessment = "partial") <=>
                          2 * Cardinality(reachable) >= Cardinality(tested)
                   /\ (assessment = "mostly_failed") <=>
                          2 * Cardinality(reachable) < Cardinality(tested)

\* a finished run in which exactly half of the tested countries were reachable
C8_Witness ==
    /\ rpc = "done"
    /\ assessment = "partial"
    /\ ~success
    /\ 2 * SumValues(connection_results) = Len(connection_results)

(* ------------------------------------------------------------------ *)
(* Further claims about the Treasury client                            *)
(* ------------------------------------------------------------------ *)
\* C11: get_datasets_by_category returns exactly the registry endpoints whose
\* path contains the category, in registry order; when there is none it returns
\* an error envelope with no data and the message "No datasets found for
\* category: <category>", otherwise a success envelope.
C11_CategoryFilter ==
    (Returned1 /\ call.fn = "get_datasets_by_category") =>
        LET category == call.args[1]
            d == result.data.v
            selected == {k \in 1..Len(AvailableDatasets) :
                            IsSubstr(category, AvailableDatasets[k])}
        IN  /\ Len(d) = Cardinality(selected)
            /\ \A i \in 1..Len(d) :
                   /\ \E k \in selected : AvailableDatasets[k] = d[i].path
                   /\ \A j \in 1..Len(d) :
                          i < j => RegistryIndex(d[i].path) < RegistryIndex(d[j].path)
            /\ selected = {} =>
                   /\ d = <<>>
                   /\ result.error = PyStr(S_no_datasets \o category)
            /\ selected # {} => result.error = PyNone

\* C11 witness: a category no path contains has been asked for, and answered
\* with an error envelope
C11_Witness ==
    /\ Returned1
    /\ call.fn = "get_datasets_by_category"
    /\ call.args[1] = S_nonexistent
    /\ result.error.t = "str"

\* C12: every descriptor returned by get_catalogue, get_datasets_by_category
\* and search_datasets has its path equal to its endpoint, an endpoint of the
\* registry, and as category the second '/'-separated segment of that endpoint.
C12_DescriptorFields ==
    (Returned1 /\ call.fn \in {"get_catalogue", "get_datasets_by_category",
                               "search_datasets"}) =>
        \A i \in 1..Len(result.data.v) :
            LET info == result.data.v[i]
            IN  /\ info.path = info.endpoint
                /\ \E k \in 1..Len(AvailableDatasets) :
                       AvailableDatasets[k] = info.endpoint
                /\ info.category = StrSplitOn(info.endpoint, "/")[2]

\* C13: the parameters _make_request sends always carry 'page[size]', the
\* caller's value when supplied and otherwise 100, and 'format' equal to 'json'
\* whatever format the caller supplied; every other parameter of the caller is
\* sent unchanged and nothing else is added.
C13_RequestParameters ==
    /\ \A i \in 1..Len(net) :
           /\ "page[size]" \in DOMAIN net[i].params
           /\ "format" \in DOMAIN net[i].params
           /\ net[i].params["format"] = "json"
    /\ (Returned1 /\ call.fn = "_make_request") =>
           LET params == call.args[2]
               given == IF IsNone(params) THEN {} ELSE DOMAIN params.v
               sent == net[1].params
           IN  /\ DOMAIN sent = given \cup {"page[size]", "format"}
               /\ sent["page[size]"] =
                      IF "page[size]" \in given THEN params.v["page[size]"] ELSE 100
               /\ \A k \in given \ {"page[size]", "format"} : sent[k] = params.v[k]

\* C13 witness: _make_request was called with a format of its caller's and
\* without a page size
C13_Witness ==
    /\ Returned1
    /\ call.fn = "_make_request"
    /\ call.args[2].t = "dict"
    /\ "format" \in DOMAIN call.args[2].v
    /\ call.args[2].v["format"] # "json"
    /\ "page[size]" \notin DOMAIN call.args[2].v

\* the accessors that hand their call to _make_request
RequestingAccessors ==
    {"_make_request", "get_dataset_data", "get_dataset_summary"} \cup DerivedAccessors

\* C14: a call of _make_request, get_dataset_data, get_dataset_summary or a
\* derived accessor issues exactly one network request, with the timeout of
\* 30, whatever the outcome: a failed call is not retried.
C14_OneRequestPerCall ==
    (Returned1 /\ call.fn \in RequestingAccessors) =>
        /\ Len(net) = 1
        /\ net[1].timeout = 30
        /\ Len(answers) = 1

\* C14 witness: a call whose one request timed out has returned its error
C14_Witness ==
    /\ Returned1
    /\ call.fn \in RequestingAccessors
    /\ answers[1].kind = "raise"
    /\ "Timeout" \in answers[1].exc.classes
    /\ result.error.t = "str"
    /\ Len(net) = 1

\* ---------------------------------------------------------------------------
\* Failure classes of the request executor

StartsWith(s, p) == Len(s) >= Len(p) /\ SubSeq(s, 1, Len(p)) = p

\* the message prefix of each failure class
ClassPrefix ==
    [http |-> <<"H","T","T","P"," ","E","r","r","o","r",":">>,
     timeout |-> <<"R","e","q","u","e","s","t"," ","t","i","m","e","o","u","t">>,
     connection |-> <<"C","o","n","n","e","c","t","i","o","n"," ","e","r","r","o","r">>,
     invalid_json |-> <<"I","n","v","a","l","i","d"," ","J","S","O","N">>,
     api |-> <<"A","P","I"," ","E","r","r","o","r",":">>,
     unexpected |-> <<"U","n","e","x","p","e","c","t","e","d"," ","e","r","r","o","r",":">>]

\* the class a remote outcome falls in, "none" for an outcome that is no
\* failure; is2xx tells which statuses count as successful
FailureClass(remote, is2xx(_)) ==
    IF remote.kind = "raise"
    THEN IF "Timeout" \in remote.exc.classes THEN "timeout"
         ELSE IF "ConnectionError" \in remote.exc.classes THEN "connection"
         ELSE "unexpected"
    ELSE IF ~is2xx(remote.status) THEN "http"
    ELSE IF ~remote.body.json THEN "invalid_json"
    ELSE LET data == remote.body.value
         IN  IF data.t # "dict" THEN "unexpected"
             ELSE IF "error" \in DOMAIN data.v THEN "api"
             ELSE IF DictGet(data.v, "data", PyList(<<>>)).t # "list" THEN "unexpected"
             ELSE IF DictGet(data.v, "meta", PyDict(EmptyDict)).t # "dict" THEN "unexpected"
             ELSE "none"

Is2xx(status) == status >= 200 /\ status < 300

\* a failure of class c is reported under c and under no other class
ReportedUnder(c) ==
    /\ result.error.t = "str"
    /\ StartsWith(result.error.v, ClassPrefix[c])
    /\ \A o \in DOMAIN ClassPrefix \ {c} : ~StartsWith(result.error.v, ClassPrefix[o])

\* C15: the six failure classes of _make_request (non-2xx status, timeout,
\* connection failure, malformed JSON body, API-reported error, uncategorized
\* exception) have pairwise different prefixes, no prefix beginning another;
\* every failure is reported under exactly the prefix of its class; and a
\* failure that is both a timeout and a connection error is reported as a
\* timeout.
C15_FailureClasses ==
    /\ \A c, o \in DOMAIN ClassPrefix :
           c # o => ~StartsWith(ClassPrefix[c], ClassPrefix[o])
    /\ (Returned1 /\ call.fn \in RequestingAccessors) =>
           LET c == FailureClass(answers[1], Is2xx)
           IN  c # "none" => ReportedUnder(c)

\* ---------------------------------------------------------------------------
\* Derived accessors

\* the one endpoint path of each derived accessor
DerivedEndpoint ==
    [get_debt_to_penny |-> S_ep_debt,
     get_treasury_yield_rates |-> S_ep_rates,
     get_monthly_treasury_statement |-> S_ep_collections,
     get_interest_expense |-> S_ep_interest]

\* the request of a derived accessor goes to its one endpoint, sorted by
\* "-record_date", with page size 500, whatever the dates
DerivedRequestFixed ==
    /\ Len(net) = 1
    /\ net[1].endpoint = DerivedEndpoint[call.fn]
    /\ "sort" \in DOMAIN net[1].params
    /\ net[1].params["sort"] = <<"-","r","e","c","o","r","d","_","d","a","t","e">>
    /\ net[1].params["page[size]"] = 500

C18_NeverAborts == rpc # "raised"

\* ---------------------------------------------------------------------------
\* Exit codes

\* a command of the Treasury command line other than 'test' has exited
CommandExited ==
    /\ tpc = "returned"
    /\ exit_code # -1
    /\ call.fn # "test_endpoints"

\* the 'test' command has exited
TestCommandExited ==
    /\ tpc = "returned"
    /\ exit_code # -1
    /\ call.fn = "test_endpoints"

\* every test of test_endpoints succeeded
AllEndpointTestsPassed ==
    \A i \in 1..Len(test_results) : test_results[i].status = "success"

AllTrue(d) == \A i \in 1..Len(d) : d[i].v

\* no check of the harness failed
NoCheckFailed ==
    /\ rpc = "done"
    /\ supported_countries
    /\ AllTrue(connection_results)
    /\ AllTrue(organization_results)
    /\ AllTrue(dataset_results)
    /\ AllTrue(resource_results)
    /\ integrated_workflow

\* the Treasury command line exits 1 when the printed envelope's error is
\* set and 0 otherwise
CommandExitCode ==
    CommandExited => exit_code = (IF result.error = PyNone THEN 0 ELSE 1)

\* the 'test' command exits 0 only when every test succeeded
TestCommandExitCode ==
    TestCommandExited => (exit_code = 0 <=> AllEndpointTestsPassed)

\* the harness exits 0 only when no check failed
HarnessExitCode ==
    harness_exit_code # -1 => (harness_exit_code = 0 <=> NoCheckFailed)

\* C19: the Treasury command line exits 0 when the command succeeded and 1
\* when the printed envelope's error field is set; the test suites (the
\* harness, and the 'test' command running test_endpoints) exit 1 whenever
\* any of their checks failed and 0 only when fully successful.
C19_ExitCodes ==
    /\ CommandExitCode
    /\ TestCommandExitCode
    /\ HarnessExitCode

\* the country passed its connection test
ConnectionPassed(country) ==
    \E j \in 1..Len(connection_results) :
        connection_results[j].k = country /\ connection_results[j].v

\* C20: every accessor call of the integrated workflow goes to a country whose
\* connection test ran and passed; no workflow call is issued against a
\* country whose connection test failed or was never run.
C20_WorkflowGating ==
    \A i \in 1..Len(calls) :
        calls[i].group = "workflow" => ConnectionPassed(calls[i].country)

\* ---------------------------------------------------------------------------
\* Multi-step test groups

\* the steps of each group that go through test_function, each with the place
\* of its answer among the group's answers
GroupSteps ==
    [organizations |->
        {[fn |-> "list_organizations", at |-> 1],
         [fn |-> "get_organization_details", at |-> 3]},
     datasets |->
        {[fn |-> "list_datasets", at |-> 1],
         [fn |-> "search_datasets", at |-> 2],
         [fn |-> "get_dataset_details", at |-> 4]},
     resources |->
        {[fn |-> "get_dataset_resources", at |-> 2],
         [fn |-> "get_resource_details", at |-> 4]}]

\* the accessors a group also calls directly, to look up the name its
\* dependent step needs
GroupLookups ==
    [organizations |-> {"list_organizations"},
     datasets |-> {"search_datasets"},
     resources |-> {"get_dataset_resources"}]

\* how often the group called the accessor
TimesCalled(fn) ==
    Cardinality({i \in 1..Len(group_result.calls) : group_result.calls[i].fn = fn})

StepAttempted(s) == TimesCalled(s.fn) >= 1
StepPassed(s) == TestFunction(group_call.answers[s.at])

\* C21: the result a multi-step test group records for a country is True if
\* and only if every step of the group was attempted and passed
\* test_function's validation, so a dependent step that was not attempted
\* makes it False; and no step is retried: a step is tested once, and its
\* accessor is called a second time only to look up a name after the step
\* passed.
C21_GroupResult ==
    gpc = "returned" =>
        LET steps == GroupSteps[group_call.group]
        IN  /\ group_result.ok <=> \A s \in steps : StepAttempted(s) /\ StepPassed(s)
            /\ \A s \in steps :
                   TimesCalled(s.fn) <=
                       (IF s.fn \in GroupLookups[group_call.group] /\ StepPassed(s)
                        THEN 2 ELSE 1)
            /\ \A i \in 1..Len(group_result.calls) :
                   group_result.calls[i].country = group_call.country

\* C21 witness: list_organizations passed its validation, the lookup that
\* followed returned no data, the details step was never attempted, and the
\* result recorded is False
C21_Witness ==
    /\ gpc = "returned"
    /\ group_call.group = "organizations"
    /\ TestFunction(group_call.answers[1])
    /\ group_call.answers[2] = Returned(CkanEnvelope(PyList(<<>>), CkanMetadata, PyNone))
    /\ TimesCalled("get_organization_details") = 0
    /\ ~group_result.ok

\* the countries whose connection the run has tested, in the order tested
ConnectionTested ==
    LET cs == GroupCalls({"connections"})
    IN  [i \in 1..Len(cs) |-> cs[i].country]

\* run_all_tests is past test_portal_connections
ConnectionsDone ==
    rpc \in {"organizations", "datasets", "resources", "workflow", "summary", "done"}

\* the connection tests follow the list given: each of its countries once,
\* in list order, and the results are kept for those countries
ConnectionsFollow(list) ==
    /\ Len(ConnectionTested) <= Len(list)
    /\ ConnectionTested = SubSeq(list, 1, Len(ConnectionTested))
    /\ [i \in 1..Len(connection_results) |-> connection_results[i].k] = ConnectionTested
    /\ ConnectionsDone => ConnectionTested = list

\* C22: the countries that receive a connection test in run_all_tests are
\* exactly the targeted list (the list passed in, or all eight by default),
\* each tested once and in list order, in normal and in fast mode alike, so
\* the connection results the verdict is computed from are those of the
\* targeted countries.
C22_ConnectionTargets == ConnectionsFollow(targets)

====
